---------------------------- MODULE Spec2Model ----------------------------
(***************************************************************************)
(* A model of the web-search retrieval pipeline of app-eai-agent-surkai:   *)
(* the sentence-window chunker (helpers/chunk_breaker.py), the bounded     *)
(* crawl fan-out and the orchestration of web_search / web_search_context  *)
(* (services/search_service.py, services/crawl_client.py) and the shared   *)
(* vector collection (helpers/vectorstore.py), the synthesis call          *)
(* (services/llm_client.py), the extraction of the cited sources and the   *)
(* lexical chunk selector (helpers/text_selector.py).                      *)
(*                                                                         *)
(* The specifications share the variables:                                 *)
(*   SpecChunk  chunk_markdown applied to bounded documents                *)
(*   SpecCrawl  the crawl fan-out of one request, for every result list    *)
(*              and crawl outcome, up to the request's answer or its       *)
(*              entry into the index stage                                 *)
(*   SpecPool   the crawls of concurrent requests on the one semaphore     *)
(*   Spec       whole requests running concurrently on the shared index    *)
(*   SpecDedup  the index stage of two requests over every list of         *)
(*              documents, repeated pages included, chunked one document   *)
(*              at a time                                                  *)
(*   SpecSources    _extract_sources applied to bounded texts              *)
(*   SpecSummarize  summarize applied to bounded contexts                  *)
(*   SpecSweep  the cleanups by age against two requests at their index    *)
(*              stage, over stores under, at and above the high-water mark *)
(*   SpecTask   the background cleanup task beside two requests that run   *)
(*              to their answers                                           *)
(*   SpecAwait  the index stage with a provider that may never respond     *)
(*   SpecStore  index_chunks, ensure_collection and the two cleanups       *)
(*              called directly                                            *)
(*   SpecSelect select_relevant_chunks run twice on one input, and         *)
(*              select_chunks_within_token_limit over bounded chunk lists  *)
(*   SpecPoolFair   the semaphore with more crawls than slots, failures    *)
(*              and cancellation, under fair scheduling                    *)
(***************************************************************************)
EXTENDS Integers, Sequences, FiniteSets, TLC

(***************************************************************************)
(* Bounds of the model.                                                    *)
(***************************************************************************)
\* longest document given to chunk_markdown, in words
MaxWords == 5
\* largest max_tokens tried
MaxMaxTokens == 3
\* largest overlap_tokens tried
MaxOverlap == 2
\* largest min_tokens tried
MaxMinTokens == 3
\* most search results of one request (k of the request) in SpecCrawl, SpecPool
MaxUrls == 3
\* most search results of one request in Spec
MainUrls == 1
\* hours the clock may advance in Spec
MaxTicks == 1
\* most documents of one request in SpecDedup
MaxDocs == 2
\* most free lines at the head of a text given to _extract_sources
MaxLines == 2
\* longest run of citation lines of distinct urls that ends such a text
MaxRun == 9
\* longest fallback list given to _extract_sources
MaxFallback == 5
\* most chunks in a context given to summarize
MaxHits == 3
\* most direct calls of index_chunks in SpecStore
MaxCalls == 3
\* longest list of chunks given to the selector, the long runs apart
MaxChunks == 2
\* most crawls asked for beyond the slots in SpecPoolFair
MaxQueued == 2
\* most calls of the admin cleanup in flight at once
MaxSweeps == 1
\* most calls of ensure_collection between their two awaits at once
MaxEnsures == 2

(***************************************************************************)
(* Program constants.                                                      *)
(***************************************************************************)
\* CRAWL_SEMAPHORE = asyncio.Semaphore(5)
CrawlSlots == 5
\* crawl_markdown: markdown under 50 characters sends it to the other fields
CrawlMinChars == 50
\* web_search: a document under 300 characters is dropped
DocMinChars == 300
\* web_search: a chunk under 200 characters is dropped
ChunkMinChars == 200
\* retrieve(request.query, query_id, top_k=8)
TopK == 8
\* _background_cleanup_if_needed: points_count > 10000
HighWater == 10000
\* cleanup_old_chunks: max_age_hours * 3600
SecondsPerHour == 3600
\* _background_cleanup_if_needed: cleanup_old_chunks(max_age_hours=24)
BackgroundMaxAge == 24
\* _extract_sources: sources = fallback[:4]
FallbackCount == 4
\* _extract_sources: if len(deduped) >= 8: break
SourceCap == 8
\* web_search: sources=top_urls[:3]
ErrorSources == 3
\* summarize: max_fallback = min(len(context), 10000)
FallbackChars == 10000
\* chunk_markdown(md, max_tokens=800, overlap_tokens=150, min_tokens=100)
DefaultMaxTokens == 800
DefaultOverlapTokens == 150
DefaultMinTokens == 100

VARIABLES
    \* ---- chunk_markdown (helpers/chunk_breaker.py) ----
    md,              \* the document: a sequence of words, see Word
    max_tokens,
    overlap_tokens,
    min_tokens,
    sentences,       \* _SENT_SPLIT.split(md)
    idx,             \* number of sentences consumed by the loop
    curr_words,      \* the open window
    chunks,          \* the chunks returned so far
    closed,          \* history: for every window closed so far, was it kept
    c_pc,            \* "start" | "loop" | "done"
    \* ---- one entry per request (services/search_service.py) ----
    pc,              \* where the request's coroutine stands
    entry,           \* "web_search" | "web_search_context"
    results,         \* what searx_search returned
    tasks,           \* state of each limited_crawl_markdown task of the gather
    crawled,         \* the list gather fills, one slot per url
    reordered,       \* history: a crawl finished before one listed ahead of it
    markdown_docs,
    answer,          \* the response returned, or the exception raised
    query_id,        \* str(uuid.uuid4()) of the request
    all_chunks,      \* the deduplicated chunks handed to index_chunks
    chunking,        \* the document of markdown_docs chunk_markdown is at, 0
                     \* outside the loop of lines 120-129
    hits,            \* what retrieve returned
    bg,              \* the request's _background_cleanup_if_needed task
    \* ---- process-wide ----
    sem,             \* CRAWL_SEMAPHORE._value: free crawl slots
    \* ---- the vector store (helpers/vectorstore.py) ----
    coll,            \* does the collection COLL exist
    points,          \* the points of the collection
    now,             \* int(time.time())
    pending,         \* per request: the points index_chunks has built and not
                     \* upserted yet
    deleting,        \* per caller of cleanup_old_chunks: the cutoff_time of
                     \* the calls whose delete has not run yet
    \* ---- _extract_sources (services/search_service.py) ----
    es_text,         \* text: the lines of the synthesized text
    es_fallback,     \* fallback: the candidate urls
    es_summary,      \* the summary returned
    es_sources,      \* the sources returned
    es_pc,           \* "off" | "call" | "done"
    \* ---- summarize (services/llm_client.py) ----
    sm_key,          \* is GEMINI_API_KEY set
    sm_context,      \* context: the lines of the retrieved chunks
    sm_llm,          \* what the LLM call does
    sm_out,          \* what summarize returned
    sm_pc,           \* "off" | "call" | "done"
    \* ---- helpers/text_selector.py ----
    sel_chunks,      \* chunks: the list given to the selector
    sel_query,       \* query: its tokens
    sel_budget,      \* max_tokens of select_chunks_within_token_limit
    sel_runs,        \* per process run: what select_relevant_chunks returned
    sel_ranking,     \* history: the top-50 ranking the budget loop started from
    sel_selected,    \* selected_chunks of the budget loop
    sel_result,      \* what select_chunks_within_token_limit returned
    sel_pc,          \* "off" | "start" | "loop" | "done"
    \* ---- direct calls on the vector store ----
    minted,          \* calls of index_chunks so far, each drawing fresh uuid4 ids
    creating         \* calls of ensure_collection that have read a list of
                     \* collections without COLL and not recreated it yet

chunk_vars == <<md, max_tokens, overlap_tokens, min_tokens, sentences, idx,
                curr_words, chunks, closed, c_pc>>

crawl_vars == <<pc, entry, results, tasks, crawled, reordered, markdown_docs, answer, sem>>

index_vars == <<query_id, all_chunks, chunking, hits, bg, coll, points, now, pending,
                deleting>>

extract_vars == <<es_text, es_fallback, es_summary, es_sources, es_pc>>

summarize_vars == <<sm_key, sm_context, sm_llm, sm_out, sm_pc>>

answer_vars == <<extract_vars, summarize_vars>>

select_vars == <<sel_chunks, sel_query, sel_budget, sel_runs, sel_ranking,
                 sel_selected, sel_result, sel_pc>>

store_vars == <<minted, creating>>

vars == <<chunk_vars, crawl_vars, index_vars, answer_vars, select_vars, store_vars>>

\* select_relevant_chunks(..., max_chunks: int = 25)
DefaultMaxChunks == 25
\* select_relevant_chunks(chunks, query, max_chunks=50) of the budget selection
BudgetTopN == 50
\* estimated_tokens = total_chars // 4
CharsPerToken == 4
\* len(query_phrase) > 5
PhraseMinChars == 5
\* text_lower.split()[:200]
EarlyWords == 200

(***************************************************************************)
(* Sequence helpers.                                                       *)
(***************************************************************************)
Range(s) == {s[i] : i \in 1..Len(s)}

\* Python s[-n:] for n > 0: the last n elements, all of s when it is shorter
LastN(s, n) == IF Len(s) <= n THEN s ELSE SubSeq(s, Len(s) - n + 1, Len(s))

\* Python s[:n]
FirstN(s, n) == IF Len(s) <= n THEN s ELSE SubSeq(s, 1, n)

Min(a, b) == IF a <= b THEN a ELSE b

(***************************************************************************)
(* chunk_breaker.py                                                        *)
(*                                                                         *)
(* A document is a run of whitespace-separated words.  A word is modelled  *)
(* by its identity and by whether its last character is one of . ! ? : the *)
(* only facts _SENT_SPLIT and str.split look at.                           *)
(***************************************************************************)
Word == [w : 1..(MaxWords + 1), end : BOOLEAN]

\* _SENT_SPLIT = (?<=[.!?])\s+ : the text is cut at every whitespace run that
\* follows a word ending in . ! or ? ; re.split of a text without such a place
\* (the empty text included) returns the text as its only element.
RECURSIVE SentSplitFrom(_, _, _)
SentSplitFrom(text, i, cur) ==
    IF i > Len(text) THEN <<cur>>
    ELSE IF text[i].end /\ i < Len(text)
         THEN <<Append(cur, text[i])>> \o SentSplitFrom(text, i + 1, <<>>)
         ELSE SentSplitFrom(text, i + 1, Append(cur, text[i]))

SentSplit(text) == SentSplitFrom(text, 1, <<>>)

\* a seeding that carries one word too many
OverlapOneMore(cw, ov) == LastN(cw, ov + 1)

\* curr_words[-overlap_tokens:] if overlap_tokens else []
Overlap(cw, ov) == IF ov = 0 THEN <<>> ELSE LastN(cw, ov)

\* a forced split that starts the next window from the new sentence alone
ChunkIterNoSeed(st, words, maxt, ov, mint) ==
    IF Len(words) = 0 THEN st
    ELSE IF Len(st.curr_words) + Len(words) > maxt
    THEN [chunks     |-> IF Len(st.curr_words) >= mint
                         THEN Append(st.chunks, st.curr_words)
                         ELSE st.chunks,
          curr_words |-> words,
          closed     |-> Append(st.closed, Len(st.curr_words) >= mint)]
    ELSE [st EXCEPT !.curr_words = st.curr_words \o words]

\* a forced split that cuts the seeded window down to max_tokens words
ChunkIterTruncate(st, words, maxt, ov, mint) ==
    IF Len(words) = 0 THEN st
    ELSE IF Len(st.curr_words) + Len(words) > maxt
    THEN [chunks     |-> IF Len(st.curr_words) >= mint
                         THEN Append(st.chunks, st.curr_words)
                         ELSE st.chunks,
          curr_words |-> FirstN((IF ov = 0 THEN <<>> ELSE LastN(st.curr_words, ov)) \o words, maxt),
          closed     |-> Append(st.closed, Len(st.curr_words) >= mint)]
    ELSE [st EXCEPT !.curr_words = st.curr_words \o words]

\* One iteration of the for loop of chunk_markdown on the sentence `words`:
\* the loop's state is [chunks, curr_words, closed].
ChunkIter(st, words, maxt, ov, mint) ==
    IF Len(words) = 0 THEN st
    ELSE IF Len(st.curr_words) + Len(words) > maxt
    THEN [chunks     |-> IF Len(st.curr_words) >= mint
                         THEN Append(st.chunks, st.curr_words)
                         ELSE st.chunks,
          curr_words |-> Overlap(st.curr_words, ov) \o words,
          closed     |-> Append(st.closed, Len(st.curr_words) >= mint)]
    ELSE [st EXCEPT !.curr_words = st.curr_words \o words]

\* The trailing flush after the loop.
ChunkFlush(st, mint) ==
    IF Len(st.curr_words) >= mint
    THEN [st EXCEPT !.chunks = Append(st.chunks, st.curr_words),
                    !.closed = Append(st.closed, TRUE)]
    ELSE [st EXCEPT !.closed = Append(st.closed, FALSE)]

RECURSIVE ChunkLoop(_, _, _, _, _, _)
ChunkLoop(st, sents, i, maxt, ov, mint) ==
    IF i > Len(sents) THEN ChunkFlush(st, mint)
    ELSE ChunkLoop(ChunkIter(st, sents[i], maxt, ov, mint), sents, i + 1, maxt, ov, mint)

\* chunk_markdown(md, max_tokens, overlap_tokens, min_tokens): the chunk list
chunk_markdown(text, maxt, ov, mint) ==
    ChunkLoop([chunks |-> <<>>, curr_words |-> <<>>, closed |-> <<>>],
              SentSplit(text), 1, maxt, ov, mint).chunks

(***************************************************************************)
(* The requests.  A request is one call of web_search or                   *)
(* web_search_context; the event loop runs one coroutine at a time and     *)
(* switches at an await, so an action is the code between two awaits.      *)
(***************************************************************************)
\* two requests run concurrently
Req == {1, 2}

\* the callers of cleanup_old_chunks: the admin endpoint and the cleanup task
\* of each request
Admin == 0

Sweepers == {Admin} \cup Req

Urls == {"u1", "u2", "u3", "u4"}

\* the title the search provider gives for a url
TitleOf(u) == <<"title of", u>>

\* a text: the page it was extracted from and its length once stripped (the
\* words of the pages are given with PageSentences)
NoText == [page |-> "", len |-> 0]
Text(u, n) == IF n = 0 THEN NoText ELSE [page |-> u, len |-> n]

\* a gather slot not filled yet
Pending == [type |-> "pending"]

\* no response yet
NoAnswer == [kind |-> "none"]

\* every pipeline variable as it is when the module is imported
CrawlIdle ==
    /\ pc = [r \in Req |-> "idle"]
    /\ entry = [r \in Req |-> "web_search"]
    /\ results = [r \in Req |-> <<>>]
    /\ tasks = [r \in Req |-> <<>>]
    /\ crawled = [r \in Req |-> <<>>]
    /\ reordered = [r \in Req |-> FALSE]
    /\ markdown_docs = [r \in Req |-> <<>>]
    /\ answer = [r \in Req |-> NoAnswer]
    /\ sem = CrawlSlots

\* the index stage before any request reached it, the collection absent
NoId == <<"uuid", 0>>

IndexIdle ==
    /\ query_id = [r \in Req |-> NoId]
    /\ all_chunks = [r \in Req |-> <<>>]
    /\ chunking = [r \in Req |-> 0]
    /\ hits = [r \in Req |-> {}]
    /\ bg = [r \in Req |-> "none"]
    /\ coll = FALSE
    /\ points = {}
    /\ now = 0
    /\ pending = [r \in Req |-> {}]
    /\ deleting = [c \in Sweepers |-> {}]

\* the chunker's variables when no document is being chunked
ChunkIdle ==
    /\ md = <<>>
    /\ max_tokens = 1
    /\ overlap_tokens = 0
    /\ min_tokens = 0
    /\ sentences = <<>>
    /\ idx = 0
    /\ curr_words = <<>>
    /\ chunks = <<>>
    /\ closed = <<>>
    /\ c_pc = "off"

\* no call of _extract_sources or summarize is being followed
AnswerIdle ==
    /\ es_text = <<>>
    /\ es_fallback = <<>>
    /\ es_summary = <<>>
    /\ es_sources = <<>>
    /\ es_pc = "off"
    /\ sm_key = FALSE
    /\ sm_context = <<>>
    /\ sm_llm = [kind |-> "none", text |-> <<>>]
    /\ sm_out = <<>>
    /\ sm_pc = "off"

\* no call of the selector is being followed
SelectIdle ==
    /\ sel_chunks = <<>>
    /\ sel_query = <<>>
    /\ sel_budget = 0
    /\ sel_runs = <<>>
    /\ sel_ranking = <<>>
    /\ sel_selected = <<>>
    /\ sel_result = <<>>
    /\ sel_pc = "off"

\* no direct call of index_chunks or ensure_collection has been made
StoreIdle == minted = 0 /\ creating = 0

\* ---- the documents and settings tried ----
\* word i of a document is word number i: only the sentence ends vary
Docs ==
    UNION {{[i \in 1..n |-> [w |-> i, end |-> e[i]]] : e \in [1..n -> BOOLEAN]}
           : n \in 0..MaxWords}

ChunkInit ==
    /\ md \in Docs
    /\ max_tokens \in 1..MaxMaxTokens
    /\ overlap_tokens \in 0..MaxOverlap
    /\ min_tokens \in 0..MaxMinTokens
    /\ sentences = <<>>
    /\ idx = 0
    /\ curr_words = <<>>
    /\ chunks = <<>>
    /\ closed = <<>>
    /\ c_pc = "start"
    /\ CrawlIdle
    /\ IndexIdle
    /\ AnswerIdle /\ SelectIdle /\ StoreIdle

\* sentences = _SENT_SPLIT.split(md); chunks = []; curr_words = []
ChunkStart ==
    /\ c_pc = "start"
    /\ sentences' = SentSplit(md)
    /\ idx' = 0
    /\ curr_words' = <<>>
    /\ chunks' = <<>>
    /\ closed' = <<>>
    /\ c_pc' = "loop"
    /\ UNCHANGED <<md, max_tokens, overlap_tokens, min_tokens>>
    /\ UNCHANGED <<crawl_vars, index_vars, answer_vars, select_vars, store_vars>>

\* one pass of `for idx, sent in enumerate(sentences)`, up to _yield_every
ChunkSentence ==
    /\ c_pc = "loop"
    /\ idx < Len(sentences)
    /\ LET st == ChunkIter([chunks |-> chunks, curr_words |-> curr_words,
                            closed |-> closed],
                           sentences[idx + 1], max_tokens, overlap_tokens, min_tokens)
       IN /\ chunks' = st.chunks
          /\ curr_words' = st.curr_words
          /\ closed' = st.closed
    /\ idx' = idx + 1
    /\ UNCHANGED <<md, max_tokens, overlap_tokens, min_tokens, sentences, c_pc>>
    /\ UNCHANGED <<crawl_vars, index_vars, answer_vars, select_vars, store_vars>>

\* the loop is over: flush the trailing window and return chunks
ChunkReturn ==
    /\ c_pc = "loop"
    /\ idx = Len(sentences)
    /\ LET st == ChunkFlush([chunks |-> chunks, curr_words |-> curr_words,
                             closed |-> closed], min_tokens)
       IN /\ chunks' = st.chunks
          /\ closed' = st.closed
    /\ c_pc' = "done"
    /\ UNCHANGED <<md, max_tokens, overlap_tokens, min_tokens, sentences, idx, curr_words>>
    /\ UNCHANGED <<crawl_vars, index_vars, answer_vars, select_vars, store_vars>>

ChunkNext == ChunkStart \/ ChunkSentence \/ ChunkReturn

SpecChunk == ChunkInit /\ [][ChunkNext]_vars

\* the stepwise loop and the function agree on the result
ChunkStepsAgree ==
    c_pc = "done" => chunks = chunk_markdown(md, max_tokens, overlap_tokens, min_tokens)

(***************************************************************************)
(* crawl_client.py: crawl_markdown                                         *)
(*                                                                         *)
(* What the crawl service does with one POST: the request times out, it    *)
(* answers with an error status, the transport breaks, or it answers with  *)
(* a JSON result.  The text fields of the result are given by their        *)
(* lengths once stripped; cleaned_html also by its length as sent, which   *)
(* is what line 64 tests.  status_code and error_message are those of the  *)
(* result, or of the response for an error status.                         *)
(***************************************************************************)
\* cleaned_html of n characters, s of them left once stripped
Html(n, s) == [len |-> n, stripped |-> s]

NoHtml == Html(0, 0)

Outcome(k, m, c, e, ok, status, err) ==
    [kind |-> k, markdown |-> m, cleaned_html |-> c, extracted_content |-> e,
     success |-> ok, status_code |-> status, error_message |-> err]

TimeoutOutcome == Outcome("timeout", 0, NoHtml, 0, FALSE, 0, "")
\* raise_for_status raises on the status s of the response
StatusOutcome(s) == Outcome("http_status", 0, NoHtml, 0, FALSE, s, "")
TransportOutcome == Outcome("transport", 0, NoHtml, 0, FALSE, 0, "")
LongOutcome == Outcome("json", DocMinChars, NoHtml, 0, TRUE, 200, "")

FailureOutcomes == {TimeoutOutcome, StatusOutcome(404), TransportOutcome}

JsonOutcomes ==
    { LongOutcome,
      Outcome("json", DocMinChars - 1, NoHtml, 0, TRUE, 200, ""),
      Outcome("json", CrawlMinChars, NoHtml, 0, TRUE, 200, ""),
      Outcome("json", 0, Html(DocMinChars, DocMinChars), 0, TRUE, 200, ""),
      Outcome("json", 0, NoHtml, CrawlMinChars + 1, TRUE, 200, ""),
      Outcome("json", 0, Html(1, 0), DocMinChars, TRUE, 200, ""),
      Outcome("json", DocMinChars, NoHtml, 0, TRUE, 206, "partial"),
      Outcome("json", 0, NoHtml, 0, FALSE, 403, "blocked") }

AllOutcomes == FailureOutcomes \cup JsonOutcomes

\* the dict crawl_markdown returns
CrawlResult(u, text, ok, status, err) ==
    [type |-> "dict", url |-> u, markdown |-> text, success |-> ok,
     status_code |-> status, error_message |-> err]

\* lines 58-78: the markdown of the result, or cleaned_html when the markdown
\* is short, or extracted_content when cleaned_html is empty; the text is
\* kept when more than 50 characters are left once stripped
CrawledText(u, o) ==
    LET first   == o.markdown
        content == IF first = 0 \/ first < CrawlMinChars
                   THEN (IF o.cleaned_html.len # 0 THEN o.cleaned_html.stripped
                         ELSE o.extracted_content)
                   ELSE first
    IN  Text(u, IF content > CrawlMinChars THEN content ELSE 0)

\* a crawl_markdown that lets the timeout escape to its caller
crawl_markdown_raising(u, o) ==
    IF o.kind = "timeout"
    THEN [type |-> "exception", url |-> u, markdown |-> NoText, success |-> FALSE,
          status_code |-> 0, error_message |-> "timeout"]
    ELSE IF o.kind = "http_status"
    THEN CrawlResult(u, NoText, FALSE, o.status_code, "http")
    ELSE IF o.kind = "transport" THEN CrawlResult(u, NoText, FALSE, 0, "exception")
    ELSE CrawlResult(u, CrawledText(u, o), o.success, o.status_code, o.error_message)

\* crawl_markdown(url) when the crawl service does o
crawl_markdown(u, o) ==
    IF o.kind = "timeout" THEN CrawlResult(u, NoText, FALSE, 0, "timeout")
    ELSE IF o.kind = "http_status"
    THEN CrawlResult(u, NoText, FALSE, o.status_code, "http")
    ELSE IF o.kind = "transport" THEN CrawlResult(u, NoText, FALSE, 0, "exception")
    ELSE CrawlResult(u, CrawledText(u, o), o.success, o.status_code, o.error_message)

(***************************************************************************)
(* search_service.py: the search and the crawl fan-out                     *)
(***************************************************************************)
Insufficient == "Nao encontrei informacao suficiente."

\* WebSearchResponse(summary, sources): the summary is one of the fixed
\* messages, or "synthesized" with the lines _extract_sources returned
Answer(summary, sources, lines) ==
    [kind |-> "response", summary |-> summary, sources |-> sources, lines |-> lines]

Response(summary, sources) == Answer(summary, sources, <<>>)

ContextResponse(snippets) == [kind |-> "context", snippets |-> snippets]

Raised(what) == [kind |-> "raised", error |-> what]

\* an empty crawl stage answered with the first search urls as sources
NoDocsResponseWithUrls(r) ==
    Response(Insufficient, FirstN([i \in 1..Len(results[r]) |-> results[r][i].url], 3))

\* return WebSearchResponse(summary="Não encontrei informação suficiente.", sources=[])
NoDocsResponse(r) == Response(Insufficient, <<>>)

\* a gather that hands the results back in the order the crawls finished
GatherSlotByCompletion(r, i) ==
    Cardinality({j \in 1..Len(tasks[r]) : tasks[r][j] = "done"}) + 1

\* asyncio.gather returns the results in the order of its arguments
GatherSlot(r, i) == i

\* a document filter that also drops a text of exactly 300 characters
KeepDocOver(res) == res.type = "dict" /\ res.markdown.len > DocMinChars

\* lines 86-101: the crawl result becomes a document
KeepDoc(res) == res.type = "dict" /\ ~(res.markdown.len < DocMinChars)

\* lines 84-102: markdown_docs from zip(top_urls, crawled, top_titles)
RECURSIVE DocsFrom(_, _, _)
DocsFrom(res, cr, i) ==
    IF i > Len(res) \/ i > Len(cr) THEN <<>>
    ELSE (IF KeepDoc(cr[i])
          THEN <<[url |-> res[i].url, title |-> res[i].title, markdown |-> cr[i].markdown]>>
          ELSE <<>>) \o DocsFrom(res, cr, i + 1)

\* the result lists the search provider may return: distinct urls, at most n
RECURSIVE UrlSeqs(_)
UrlSeqs(n) ==
    IF n = 0 THEN {<<>>}
    ELSE UrlSeqs(n - 1) \cup
         {Append(q, u) : q \in {x \in UrlSeqs(n - 1) : Len(x) = n - 1},
                         u \in Urls} 

DistinctUrlSeqs(n) == {q \in UrlSeqs(n) : \A i, j \in 1..Len(q) : i # j => q[i] # q[j]}

ResultList(q) == [i \in 1..Len(q) |-> [url |-> q[i], title |-> TitleOf(q[i])]]

\* a request arrives at the endpoint e
Start(r, e) ==
    /\ pc[r] = "idle"
    /\ pc' = [pc EXCEPT ![r] = "search"]
    /\ entry' = [entry EXCEPT ![r] = e]
    /\ UNCHANGED <<results, tasks, crawled, reordered, markdown_docs, answer, sem>>

\* searx_search returns res; web_search answers at once on an empty list,
\* otherwise gather creates one limited_crawl_markdown task per url
SearchReturn(r, res) ==
    /\ pc[r] = "search"
    /\ results' = [results EXCEPT ![r] = res]
    /\ IF entry[r] = "web_search" /\ Len(res) = 0
       THEN /\ pc' = [pc EXCEPT ![r] = "done"]
            /\ answer' = [answer EXCEPT ![r] = Response(Insufficient, <<>>)]
            /\ UNCHANGED <<tasks, crawled>>
       ELSE /\ pc' = [pc EXCEPT ![r] = "crawl"]
            /\ tasks' = [tasks EXCEPT ![r] = [i \in 1..Len(res) |-> "queued"]]
            /\ crawled' = [crawled EXCEPT ![r] = [i \in 1..Len(res) |-> Pending]]
            /\ UNCHANGED answer
    /\ UNCHANGED <<entry, reordered, markdown_docs, sem>>

\* searx_search raises: web_search's outer except answers, web_search_context
\* lets the exception through
SearchRaise(r) ==
    /\ pc[r] = "search"
    /\ pc' = [pc EXCEPT ![r] = "done"]
    /\ answer' = [answer EXCEPT ![r] =
                     IF entry[r] = "web_search"
                     THEN Response("Erro inesperado na busca.", <<>>)
                     ELSE Raised("searx_search")]
    /\ UNCHANGED <<entry, results, tasks, crawled, reordered, markdown_docs, sem>>

\* the gather of request r is being cancelled: a child has ended cancelled,
\* and the others, cancelled with it, are to end the same way
Cancelling(r) == \E j \in 1..Len(tasks[r]) : tasks[r][j] = "cancelled"

\* a crawl that starts without waiting for a slot
CrawlAcquireNoWait(r, i) ==
    /\ pc[r] = "crawl"
    /\ i \in 1..Len(tasks[r])
    /\ ~Cancelling(r)
    /\ tasks[r][i] = "queued"
    /\ sem' = sem - 1
    /\ tasks' = [tasks EXCEPT ![r][i] = "inflight"]
    /\ UNCHANGED <<pc, entry, results, crawled, reordered, markdown_docs, answer>>

\* async with CRAWL_SEMAPHORE: the task takes a free slot
CrawlAcquire(r, i) ==
    /\ pc[r] = "crawl"
    /\ i \in 1..Len(tasks[r])
    /\ ~Cancelling(r)
    /\ tasks[r][i] = "queued"
    /\ sem > 0
    /\ sem' = sem - 1
    /\ tasks' = [tasks EXCEPT ![r][i] = "inflight"]
    /\ UNCHANGED <<pc, entry, results, crawled, reordered, markdown_docs, answer>>

\* a crawl that keeps its slot when it ends with a failure
CrawlFinishHoldingOnFailure(r, i, o) ==
    /\ pc[r] = "crawl"
    /\ i \in 1..Len(tasks[r])
    /\ ~Cancelling(r)
    /\ tasks[r][i] = "inflight"
    /\ sem' = IF o.success THEN sem + 1 ELSE sem
    /\ crawled' = [crawled EXCEPT ![r][GatherSlot(r, i)] =
                       crawl_markdown(results[r][i].url, o)]
    /\ tasks' = [tasks EXCEPT ![r][i] = "done"]
    /\ reordered' = [reordered EXCEPT ![r] =
                         @ \/ \E j \in 1..(i - 1) : tasks[r][j] # "done"]
    /\ UNCHANGED <<pc, entry, results, markdown_docs, answer>>

\* crawl_markdown returns, the slot is released and gather stores the result
CrawlFinish(r, i, o) ==
    /\ pc[r] = "crawl"
    /\ i \in 1..Len(tasks[r])
    /\ ~Cancelling(r)
    /\ tasks[r][i] = "inflight"
    /\ sem' = sem + 1
    /\ crawled' = [crawled EXCEPT ![r][GatherSlot(r, i)] =
                       crawl_markdown(results[r][i].url, o)]
    /\ tasks' = [tasks EXCEPT ![r][i] = "done"]
    /\ reordered' = [reordered EXCEPT ![r] =
                         @ \/ \E j \in 1..(i - 1) : tasks[r][j] # "done"]
    /\ UNCHANGED <<pc, entry, results, markdown_docs, answer>>

\* the task of the request is cancelled while it awaits the gather, and the
\* gather cancels its children.  Each child is a task of its own and ends in
\* a callback of its own, between which the callbacks of other tasks run:
\* crawl i of request r ends with CancelledError.  In flight, it leaves
\* `async with` and gives its slot back, also when the answer of the crawl
\* service had arrived and was waiting to be read; queued, it leaves the wait
\* of the semaphore without having taken a slot.  The request itself is
\* still inside its await.
CrawlCancel(r, i) ==
    /\ pc[r] = "crawl"
    /\ i \in 1..Len(tasks[r])
    /\ tasks[r][i] \in {"queued", "inflight"}
    /\ sem' = IF tasks[r][i] = "inflight" THEN sem + 1 ELSE sem
    /\ tasks' = [tasks EXCEPT ![r][i] = "cancelled"]
    /\ UNCHANGED <<pc, entry, results, crawled, reordered, markdown_docs, answer>>

\* every child has ended, by its result or cancelled: the gather of a
\* cancelled request ends cancelled, the request's task is to be woken with
\* CancelledError
GatherCancel(r) ==
    /\ pc[r] = "crawl"
    /\ \A i \in 1..Len(tasks[r]) : tasks[r][i] \in {"done", "cancelled"}
    /\ pc' = [pc EXCEPT ![r] = "cancelling"]
    /\ UNCHANGED <<entry, results, tasks, crawled, reordered, markdown_docs, answer, sem>>

\* CancelledError is raised at line 81 (180), which `except Exception` does
\* not catch, and the request ends with it
CancelRaise(r) ==
    /\ pc[r] = "cancelling"
    /\ pc' = [pc EXCEPT ![r] = "done"]
    /\ answer' = [answer EXCEPT ![r] = Raised("CancelledError")]
    /\ UNCHANGED <<entry, results, tasks, crawled, reordered, markdown_docs, sem>>

\* gather is complete: lines 84-107 (web_search), 182-199 (web_search_context)
Assemble(r) ==
    /\ pc[r] = "crawl"
    /\ \A i \in 1..Len(tasks[r]) : tasks[r][i] = "done"
    /\ LET docs == DocsFrom(results[r], crawled[r], 1)
       IN  /\ markdown_docs' = [markdown_docs EXCEPT ![r] = docs]
           /\ IF Len(docs) = 0
              THEN /\ pc' = [pc EXCEPT ![r] = "done"]
                   /\ answer' = [answer EXCEPT ![r] =
                                    IF entry[r] = "web_search"
                                    THEN NoDocsResponse(r)
                                    ELSE ContextResponse({})]
              ELSE /\ pc' = [pc EXCEPT ![r] = "ensure_get"]
                   /\ UNCHANGED answer
    /\ UNCHANGED <<entry, results, tasks, crawled, reordered, sem>>

Entries == {"web_search", "web_search_context"}

\* ---- SpecCrawl: one request, every result list and every crawl outcome ----
CrawlInit == ChunkIdle /\ CrawlIdle /\ IndexIdle /\ AnswerIdle /\ SelectIdle /\ StoreIdle

CrawlNext ==
    \/ \E e \in Entries : Start(1, e) /\ UNCHANGED <<chunk_vars, index_vars, answer_vars, select_vars, store_vars>>
    \/ \E q \in DistinctUrlSeqs(MaxUrls) : SearchReturn(1, ResultList(q)) /\ UNCHANGED <<chunk_vars, index_vars, answer_vars, select_vars, store_vars>>
    \/ SearchRaise(1) /\ UNCHANGED <<chunk_vars, index_vars, answer_vars, select_vars, store_vars>>
    \/ \E i \in 1..MaxUrls : CrawlAcquire(1, i) /\ UNCHANGED <<chunk_vars, index_vars, answer_vars, select_vars, store_vars>>
    \/ \E i \in 1..MaxUrls : \E o \in AllOutcomes : CrawlFinish(1, i, o) /\ UNCHANGED <<chunk_vars, index_vars, answer_vars, select_vars, store_vars>>
    \/ Assemble(1) /\ UNCHANGED <<chunk_vars, index_vars, answer_vars, select_vars, store_vars>>

SpecCrawl == CrawlInit /\ [][CrawlNext]_vars

\* ---- SpecPool: the crawls of all requests on the one semaphore ----
PoolUrls == <<"u1", "u2", "u3", "u4">>

PoolOutcomes == {LongOutcome, TimeoutOutcome}

PoolNext ==
    \/ \E r \in Req : Start(r, "web_search") /\ UNCHANGED <<chunk_vars, index_vars, answer_vars, select_vars, store_vars>>
    \/ \E r \in Req : \E n \in 0..Min(MaxUrls, Len(PoolUrls)) :
          SearchReturn(r, ResultList(FirstN(PoolUrls, n))) /\ UNCHANGED <<chunk_vars, index_vars, answer_vars, select_vars, store_vars>>
    \/ \E r \in Req : \E i \in 1..MaxUrls : CrawlAcquire(r, i) /\ UNCHANGED <<chunk_vars, index_vars, answer_vars, select_vars, store_vars>>
    \/ \E r \in Req : \E i \in 1..MaxUrls : \E o \in PoolOutcomes :
          CrawlFinish(r, i, o) /\ UNCHANGED <<chunk_vars, index_vars, answer_vars, select_vars, store_vars>>
    \/ \E r \in Req : Assemble(r) /\ UNCHANGED <<chunk_vars, index_vars, answer_vars, select_vars, store_vars>>

SpecPool == CrawlInit /\ [][PoolNext]_vars

\* ---- SpecPoolFair: the same crawls, cancellation added, fairly scheduled ----
\* the result lists: MaxUrls urls for request 1 and, for request 2, what
\* fills the slots and MaxQueued more, so that MaxQueued crawls wait for a
\* slot at once.  Request 1 is the one whose client may go away: it is
\* cancelled with crawls in flight, with crawls waiting behind those of
\* request 2, or with all of them done.
FairLists(r) ==
    IF r = 1 THEN {ResultList(FirstN(PoolUrls, MaxUrls))}
    ELSE {ResultList(FirstN(PoolUrls, CrawlSlots - MaxUrls + MaxQueued))}

\* the places a crawl task may have in the gather of its request
TaskIds ==
    1..(IF MaxUrls > CrawlSlots - MaxUrls + MaxQueued
        THEN MaxUrls ELSE CrawlSlots - MaxUrls + MaxQueued)

\* what the crawl service does: the first crawl of request 1 may time out
FairOutcomes(r, i) == IF r = 1 /\ i = 1 THEN PoolOutcomes ELSE {LongOutcome}

PoolFairNext ==
    \/ \E r \in Req : Start(r, "web_search") /\ UNCHANGED <<chunk_vars, index_vars, answer_vars, select_vars, store_vars>>
    \/ \E r \in Req : \E res \in FairLists(r) :
          SearchReturn(r, res) /\ UNCHANGED <<chunk_vars, index_vars, answer_vars, select_vars, store_vars>>
    \/ \E r \in Req : \E i \in TaskIds : CrawlAcquire(r, i) /\ UNCHANGED <<chunk_vars, index_vars, answer_vars, select_vars, store_vars>>
    \/ \E r \in Req : \E i \in 1..Len(results[r]) : \E o \in FairOutcomes(r, i) :
          CrawlFinish(r, i, o) /\ UNCHANGED <<chunk_vars, index_vars, answer_vars, select_vars, store_vars>>
    \/ \E i \in TaskIds : CrawlCancel(1, i) /\ UNCHANGED <<chunk_vars, index_vars, answer_vars, select_vars, store_vars>>
    \/ GatherCancel(1) /\ UNCHANGED <<chunk_vars, index_vars, answer_vars, select_vars, store_vars>>
    \/ CancelRaise(1) /\ UNCHANGED <<chunk_vars, index_vars, answer_vars, select_vars, store_vars>>
    \/ \E r \in Req : Assemble(r) /\ UNCHANGED <<chunk_vars, index_vars, answer_vars, select_vars, store_vars>>

\* the task of crawl i of request r takes a slot
AcquireStep(r, i) ==
    CrawlAcquire(r, i) /\ UNCHANGED <<chunk_vars, index_vars, answer_vars, select_vars, store_vars>>

\* crawl i of request r ends, whatever its outcome
FinishStep(r, i) ==
    /\ i <= Len(results[r])
    /\ \E o \in FairOutcomes(r, i) :
          CrawlFinish(r, i, o) /\ UNCHANGED <<chunk_vars, index_vars, answer_vars, select_vars, store_vars>>

\* the gather of request 1 is being cancelled and crawl i ends with it
CancelStep(i) ==
    /\ Cancelling(1)
    /\ CrawlCancel(1, i) /\ UNCHANGED <<chunk_vars, index_vars, answer_vars, select_vars, store_vars>>

\* asyncio.Semaphore wakes its waiters in the order they came, so while
\* slots keep coming free the crawls of a request that wait are not passed
\* over for ever: one of them gets a slot; every crawl in flight ends
\* (crawl_markdown has a timeout of 30 s); and once a gather is being
\* cancelled the wake-ups of all its children are in the queue of the event
\* loop, so each of them ends
PoolFairness ==
    /\ \A r \in Req : SF_vars(\E i \in TaskIds : AcquireStep(r, i))
    /\ \A r \in Req : \A i \in TaskIds : WF_vars(FinishStep(r, i))
    /\ \A i \in TaskIds : WF_vars(CancelStep(i))

SpecPoolFair == CrawlInit /\ [][PoolFairNext]_vars /\ PoolFairness

(***************************************************************************)
(* llm_client.py: summarize, and search_service.py: _extract_sources       *)
(*                                                                         *)
(* A text is the sequence of its lines; a line is known by its kind, by    *)
(* what it says and by its length in characters.                           *)
(***************************************************************************)
\* characters of "* " and the url at the head of a citation line
CiteChars == 30

\* fewest characters of a line URL_REGEX matches: "* http://" and one more
MinCiteChars == 10

\* characters of the envelope {"content": "..."} around its content
EnvelopeChars == 15

\* a line: its kind, what it says (the url of a citation), its length, the
\* length of the bullet and url at its head and, for a JSON envelope, the
\* lines of its content
Line(k, v, n) ==
    [kind |-> k, v |-> v, len |-> n, head |-> IF k = "cite" THEN CiteChars ELSE 0,
     content |-> <<>>]

\* a line of whitespace only
Blank == Line("blank", "", 0)

\* "* http://...": a line URL_REGEX matches once stripped, v is group(1)
Cite(u) == Line("cite", u, CiteChars)

\* "* http://... word word": the url is followed by n characters in all
CiteLong(u, n) == Line("cite", u, n)

\* "- http://...": a bullet URL_REGEX does not match
Dash(u) == Line("dash", u, CiteChars)

Prose(v, n) == Line("prose", v, n)

\* a line that is a JSON object with a "content" key whose value is the text
\* inner; n characters in all
Json(inner, n) == [kind |-> "json", v |-> "", len |-> n, head |-> 0, content |-> inner]

\* ---- words and chunk texts ----
\* n times the word w
Rep(w, n) == [i \in 1..n |-> w]

\* a word of n letters w
RECURSIVE Letters(_, _)
Letters(w, n) ==
    IF n = 0 THEN ""
    ELSE IF n = 1 THEN w
    ELSE Letters(w, n \div 2) \o Letters(w, n - n \div 2)

\* a sentence of n words: n - 1 times the letter w and a last word of `last`
\* characters that ends in a full stop; joined it has 2 * (n - 1) + last
\* characters
Sentence(w, n, last) == Rep(w, n - 1) \o <<Letters(w, last - 1) \o ".">>

\* " ".join(words[a..b])
RECURSIVE JoinRange(_, _, _)
JoinRange(words, a, b) ==
    IF a > b THEN ""
    ELSE IF a = b THEN words[a]
    ELSE JoinRange(words, a, (a + b) \div 2) \o " " \o JoinRange(words, (a + b) \div 2 + 1, b)

\* " ".join(curr_words).strip(): no word holds whitespace, so strip leaves it
JoinWords(words) == JoinRange(words, 1, Len(words))

\* the url the cited page of the model has: "* " and it make 30 characters
CitedUrl == "http://x1.example.org/aaaaaa"

\* the urls URL_REGEX finds after a bullet
WebUrls == {CitedUrl}

\* json.dumps({"content": c}) for a content without quotes or backslashes
Envelope(c) == "{\"content\": \"" \o c \o "\"}"

\* the content of the JSON objects the model knows
JsonContents == {JoinWords(Rep("j", DefaultMinTokens - 1) \o <<"jj">>)}

\* json.loads(s)["content"], on the objects Envelope makes
JsonContent(s) == CHOOSE c \in JsonContents : s = Envelope(c)

\* a chunk text as the chunker returns it, one line since the words are
\* joined by single spaces: the text, its length in characters and what the
\* later stages find in it (a bullet and a url at its head, a JSON object
\* with a "content" key)
ChunkText(words) ==
    LET s == JoinWords(words) IN
    IF Len(words) >= 2 /\ words[1] = "*" /\ words[2] \in WebUrls
    THEN [t |-> s, len |-> Len(s), kind |-> "cite", v |-> words[2]]
    ELSE IF \E c \in JsonContents : s = Envelope(c)
    THEN [t |-> s, len |-> Len(s), kind |-> "json", v |-> JsonContent(s)]
    ELSE [t |-> s, len |-> Len(s), kind |-> "prose", v |-> ""]

\* the line a chunk text makes in a context
ChunkLine(c) ==
    CASE c.kind = "cite" -> CiteLong(c.v, c.len)
      [] c.kind = "json" -> Json(<<Prose(c.v, c.len - EnvelopeChars)>>, c.len)
      [] OTHER -> Prose(c.t, c.len)

\* len(text), the lines being joined by one newline
RECURSIVE TextLen(_)
TextLen(t) ==
    IF t = <<>> THEN 0
    ELSE IF Len(t) = 1 THEN t[1].len
    ELSE t[1].len + 1 + TextLen(Tail(t))

\* the first n characters of a line
\* a citation cut after its url still cites it, cut inside its url it cites
\* what is left of the url, and under 10 characters it matches no more; a
\* JSON object cut short parses no more
CutLine(l, n) ==
    IF n >= l.len THEN l
    ELSE IF n = 0 THEN Blank
    ELSE IF l.kind = "cite"
    THEN (IF n >= l.head THEN Line("cite", l.v, n)
          ELSE IF n >= MinCiteChars THEN Line("cite", "cut url", n)
          ELSE Prose(l.v, n))
    ELSE IF l.kind = "json" THEN Prose(l.v, n)
    ELSE Line(l.kind, l.v, n)

\* text[:n]
RECURSIVE Prefix(_, _)
Prefix(t, n) ==
    IF t = <<>> THEN <<>>
    ELSE IF t[1].len >= n THEN <<CutLine(t[1], n)>>
    ELSE IF Len(t) = 1 THEN t
    ELSE <<t[1]>> \o Prefix(Tail(t), n - t[1].len - 1)

\* what the LLM call does: the client cannot be created, the call fails,
\* the response has no text, or response.text is returned
LlmFailures ==
    {[kind |-> "client_error", text |-> <<>>],
     [kind |-> "network_error", text |-> <<>>],
     [kind |-> "malformed", text |-> <<>>]}

LlmText(t) == [kind |-> "text", text |-> t]

\* the value summarize returns, or the exception it lets through
Returned(t) == [kind |-> "returned", text |-> t]

\* a summarize that lets the failure of the LLM call through
summarize_raising(context, key, llm) ==
    IF ~key THEN Returned(context)
    ELSE IF llm.kind = "text" THEN Returned(llm.text)
    ELSE [kind |-> "raised", text |-> <<>>]

\* summarize(context, query, sources) when the LLM call does llm
summarize(context, key, llm) ==
    IF ~key THEN Returned(context)
    ELSE IF llm.kind = "text" THEN Returned(llm.text)
    ELSE Returned(Prefix(context, Min(TextLen(context), FallbackChars)))

\* URL_REGEX.match(line.strip())
Matches(l) == l.kind = "cite"

NoMatch(l) == ~Matches(l)

\* lines 44-51: the urls of the matching lines, and the other lines
Cited(t) == [i \in 1..Len(SelectSeq(t, Matches)) |-> SelectSeq(t, Matches)[i].v]

Others(t) == SelectSeq(t, NoMatch)

\* "\n".join(lines).strip(): the blank lines at both ends go
RECURSIVE LStrip(_)
LStrip(t) == IF t # <<>> /\ t[1].kind = "blank" THEN LStrip(Tail(t)) ELSE t

RECURSIVE RStrip(_)
RStrip(t) ==
    IF t # <<>> /\ t[Len(t)].kind = "blank" THEN RStrip(SubSeq(t, 1, Len(t) - 1)) ELSE t

Strip(t) == RStrip(LStrip(t))

\* lines 54-61: first occurrences in order, the loop left at 8 of them
RECURSIVE DedupCap(_, _, _)
DedupCap(src, i, deduped) ==
    IF i > Len(src) THEN deduped
    ELSE LET d == IF src[i] \in Range(deduped) THEN deduped ELSE Append(deduped, src[i])
         IN  IF Len(d) >= SourceCap THEN d ELSE DedupCap(src, i + 1, d)

\* a source choice that adds the fallback urls to the cited ones
SourcesOrFallbackAdded(cited, fallback) == cited \o FirstN(fallback, FallbackCount)

\* lines 52-53: if not sources and fallback: sources = fallback[:4]
SourcesOrFallback(cited, fallback) ==
    IF cited = <<>> /\ fallback # <<>> THEN FirstN(fallback, FallbackCount) ELSE cited

\* lines 37-43: a text that is one JSON object with a "content" key, blank
\* lines around it or not, is replaced by its content
Unwrap(t) ==
    IF Len(Strip(t)) = 1 /\ Strip(t)[1].kind = "json" THEN Strip(t)[1].content ELSE t

\* _extract_sources(text, fallback)
extract_sources(t, fallback) ==
    [summary |-> Strip(Others(Unwrap(t))),
     sources |-> DedupCap(SourcesOrFallback(Cited(Unwrap(t)), fallback), 1, <<>>)]

\* ---- the inputs tried ----
RECURSIVE SeqsOver(_, _)
SeqsOver(S, n) ==
    IF n = 0 THEN {<<>>}
    ELSE SeqsOver(S, n - 1) \cup
         {Append(q, x) : q \in {y \in SeqsOver(S, n - 1) : Len(y) = n - 1}, x \in S}

LineAlphabet ==
    {Prose("p", 40), Blank, Cite("u1"), Cite("u2"), Dash("u1"),
     Json(<<Blank, Prose("p", 40), Cite("u2"), Blank>>, 90)}

RunUrls == <<"c1", "c2", "c3", "c4", "c5", "c6", "c7", "c8", "c9", "c10", "c11", "c12">>

CiteRun(m) == [i \in 1..Min(m, Len(RunUrls)) |-> Cite(RunUrls[i])]

SourceTexts == {p \o CiteRun(m) : p \in SeqsOver(LineAlphabet, MaxLines), m \in 0..MaxRun}

FallbackLists == SeqsOver({"u1", "u2"}, MaxFallback)

\* context = "\n\n".join(ctx_chunks): the chunk texts, a blank line between
RECURSIVE Context(_)
Context(texts) ==
    IF texts = <<>> THEN <<>>
    ELSE IF Len(texts) = 1 THEN <<ChunkLine(texts[1])>>
    ELSE <<ChunkLine(texts[1]), Blank>> \o Context(Tail(texts))

\* the sentences of the pages: A of 200 characters, C of 250, D of 199, all
\* of 100 words; Q of 701 words; H, a bullet, a url and 98 words, of 226
\* characters; J, a JSON object whose content has 100 words, of 215
SentA == Sentence("a", DefaultMinTokens, ChunkMinChars - 2 * (DefaultMinTokens - 1))

SentC == Sentence("c", DefaultMinTokens, ChunkMinChars + 50 - 2 * (DefaultMinTokens - 1))

SentD == Sentence("d", DefaultMinTokens, 1)

SentQ == Sentence("q", DefaultMaxTokens - DefaultMinTokens + 1, 2)

SentH == <<"*", CitedUrl>> \o Rep("h", DefaultMinTokens - 2)

SentJ == <<"{\"content\":", "\"j">> \o Rep("j", DefaultMinTokens - 2) \o <<"jj\"}">>

\* a chunk of 100 words and n characters
Hit(w, n) == ChunkText(Sentence(w, DefaultMinTokens, n - 2 * (DefaultMinTokens - 1)))

HitTexts ==
    {ChunkText(SentA), Hit("e", FallbackChars \div 2),
     Hit("f", FallbackChars - 1), Hit("g", FallbackChars + 1),
     ChunkText(SentH), ChunkText(SentJ)}

Contexts == {Context(q) : q \in {x \in SeqsOver(HitTexts, MaxHits) : Len(x) > 0}}

\* the model is asked for application/json with a "content" field (lines
\* 41-45); its text may be that envelope or not
LlmOutcomes ==
    LlmFailures \cup
    {LlmText(<<Prose("p", 40), Blank, Cite("u1")>>),
     LlmText(<<Json(<<Prose("p", 40), Blank, Cite("u1")>>, 90)>>)}

\* ---- SpecSources: _extract_sources applied to the texts ----
SourcesInit ==
    /\ ChunkIdle /\ CrawlIdle /\ IndexIdle /\ SelectIdle /\ StoreIdle
    /\ es_text \in SourceTexts
    /\ es_fallback \in FallbackLists
    /\ es_summary = <<>>
    /\ es_sources = <<>>
    /\ es_pc = "call"
    /\ sm_key = FALSE
    /\ sm_context = <<>>
    /\ sm_llm = [kind |-> "none", text |-> <<>>]
    /\ sm_out = <<>>
    /\ sm_pc = "off"

ExtractReturn ==
    /\ es_pc = "call"
    /\ es_summary' = extract_sources(es_text, es_fallback).summary
    /\ es_sources' = extract_sources(es_text, es_fallback).sources
    /\ es_pc' = "done"
    /\ UNCHANGED <<es_text, es_fallback, summarize_vars>>
    /\ UNCHANGED <<chunk_vars, crawl_vars, index_vars, select_vars, store_vars>>

SpecSources == SourcesInit /\ [][ExtractReturn]_vars

\* ---- SpecSummarize: summarize applied to the contexts ----
SummarizeInit ==
    /\ ChunkIdle /\ CrawlIdle /\ IndexIdle /\ SelectIdle /\ StoreIdle
    /\ es_text = <<>>
    /\ es_fallback = <<>>
    /\ es_summary = <<>>
    /\ es_sources = <<>>
    /\ es_pc = "off"
    /\ sm_key \in BOOLEAN
    /\ sm_context \in Contexts
    /\ sm_llm \in LlmOutcomes
    /\ sm_out = <<>>
    /\ sm_pc = "call"

SummarizeReturn ==
    /\ sm_pc = "call"
    /\ sm_out' = summarize(sm_context, sm_key, sm_llm)
    /\ sm_pc' = "done"
    /\ UNCHANGED <<sm_key, sm_context, sm_llm, extract_vars>>
    /\ UNCHANGED <<chunk_vars, crawl_vars, index_vars, select_vars, store_vars>>

SpecSummarize == SummarizeInit /\ [][SummarizeReturn]_vars

(***************************************************************************)
(* search_service.py and vectorstore.py: the index stage                   *)
(***************************************************************************)
\* uuid.uuid4(): a value no other call returns; the n-th of request r
Uuid(r, n) == <<"uuid", r, n>>

\* the pages of the model, by their sentences: the words of the document
\* of each page, cut where _SENT_SPLIT cuts them.  u4 repeats the sentence of
\* u1 and three times a sentence of its own, so that it gives the chunk of u1
\* and twice a chunk of its own.
PageSentences(u) ==
    CASE u = "u1" -> <<SentA>>
      [] u = "u2" -> <<SentC>>
      [] u = "u3" -> <<SentD>>
      [] u = "u4" -> <<SentA, SentQ, SentQ, SentQ>>
      [] u = "u5" -> <<SentH>>
      [] u = "u6" -> <<SentJ>>
      [] OTHER -> <<>>

RECURSIVE Flatten(_)
Flatten(sents) == IF sents = <<>> THEN <<>> ELSE Head(sents) \o Flatten(Tail(sents))

RECURSIVE ChunkTexts(_)
ChunkTexts(cs) == IF cs = <<>> THEN <<>> ELSE <<ChunkText(Head(cs))>> \o ChunkTexts(Tail(cs))

\* chunk_markdown(md) with the default settings on the sentences sents
DefaultChunks(sents) ==
    ChunkTexts(ChunkLoop([chunks |-> <<>>, curr_words |-> <<>>, closed |-> <<>>],
                         sents, 1, DefaultMaxTokens, DefaultOverlapTokens,
                         DefaultMinTokens).chunks)

\* for every page: the fewest characters a text that holds its words has,
\* and the chunks chunk_markdown makes of them
PageTable ==
    {<<u, Len(JoinWords(Flatten(PageSentences(u)))), DefaultChunks(PageSentences(u))>>
       : u \in {"u1", "u2", "u3", "u4", "u5", "u6"}}

PageRow(u) == CHOOSE row \in PageTable : row[1] = u

\* the length of the document of page u: its words need PageRow(u)[2]
\* characters, whitespace makes up the rest
PageChars(u) == IF PageRow(u)[2] > DocMinChars THEN PageRow(u)[2] ELSE DocMinChars

\* the spelling of the words of the pages: a run of one letter, with a full
\* stop after it or not, or one of the words below
PageLetters == {"a", "c", "d", "q", "h", "j"}

UrlSpelling ==
    <<"h", "t", "t", "p", ":", "/", "/", "x", "1", ".", "e", "x", "a", "m", "p", "l",
      "e", ".", "o", "r", "g", "/", "a", "a", "a", "a", "a", "a">>

Spellings(n) ==
    {Rep(l, k) \o t : l \in PageLetters, k \in 0..n, t \in {<<>>, <<".">>}}
      \cup {<<"*">>, UrlSpelling,
            <<"{", "\"", "c", "o", "n", "t", "e", "n", "t", "\"", ":">>,
            <<"\"", "j">>, <<"j", "j", "\"", "}">>}

\* "".join(cs)
RECURSIVE Spelt(_)
Spelt(cs) == IF cs = <<>> THEN "" ELSE Head(cs) \o Spelt(Tail(cs))

\* word[:n] for 0 < n < len(word)
CutWord(word, n) ==
    Spelt(FirstN(CHOOSE cs \in Spellings(Len(word)) : Spelt(cs) = word, n))

\* len(" ".join(words[a..b]))
RECURSIVE JoinLen(_, _, _)
JoinLen(words, a, b) ==
    IF a > b THEN 0
    ELSE IF a = b THEN Len(words[a])
    ELSE JoinLen(words, a, (a + b) \div 2) + 1 + JoinLen(words, (a + b) \div 2 + 1, b)

\* how many of words[a..b] lie whole within the first n characters of
\* " ".join(words[a..b])
RECURSIVE WholeWords(_, _, _, _)
WholeWords(words, a, b, n) ==
    IF a > b THEN 0
    ELSE IF a = b THEN (IF Len(words[a]) <= n THEN 1 ELSE 0)
    ELSE LET mid  == (a + b) \div 2
             left == JoinLen(words, a, mid)
         IN  IF left + 1 <= n
             THEN (mid - a + 1) + WholeWords(words, mid + 1, b, n - left - 1)
             ELSE WholeWords(words, a, mid, n)

\* " ".join(words)[:n].split() for n < len(" ".join(words)): the words that
\* lie whole within the first n characters, and what is there of the next
CutWords(words, n) ==
    LET k    == WholeWords(words, 1, Len(words), n)
        used == IF k = 0 THEN 0 ELSE JoinLen(words, 1, k) + 1
    IN  IF n - used > 0
        THEN SubSeq(words, 1, k) \o <<CutWord(words[k + 1], n - used)>>
        ELSE SubSeq(words, 1, k)

\* the sentences of the first n characters of a text whose sentences are
\* sents, a single space between two words
RECURSIVE CutSentences(_, _)
CutSentences(sents, n) ==
    IF sents = <<>> \/ n <= 0 THEN <<>>
    ELSE LET all == JoinLen(Head(sents), 1, Len(Head(sents))) IN
         IF all <= n
         THEN <<Head(sents)>> \o CutSentences(Tail(sents), n - all - 1)
         ELSE <<CutWords(Head(sents), n)>>

\* await chunk_markdown(doc["markdown"]) with the default settings: the
\* chunk texts in order.  A text with room for the words of its page is the
\* document of the page; a shorter one is the first text.len characters of
\* the words of the page, a single space between two words.
PageChunks(text) ==
    IF \E row \in PageTable : row[1] = text.page /\ text.len >= row[2]
    THEN PageRow(text.page)[3]
    ELSE DefaultChunks(CutSentences(PageSentences(text.page), text.len))

\* lines 121-129 for the document doc: its chunks in order, short and
\* repeated texts left out; seen is seen_texts
RECURSIVE DocChunks(_, _, _)
DocChunks(doc, c, seen) ==
    LET cs == PageChunks(doc.markdown) IN
    IF c > Len(cs) THEN <<>>
    ELSE IF cs[c].len < ChunkMinChars \/ cs[c] \in seen
         THEN DocChunks(doc, c + 1, seen)
         ELSE <<[url |-> doc.url, title |-> doc.title, text |-> cs[c]]>>
              \o DocChunks(doc, c + 1, seen \cup {cs[c]})

\* a seen_texts that holds the texts of the whole collection
SeenTextsShared(chunks_so_far) ==
    {x.text : x \in Range(chunks_so_far)} \cup {p.text : p \in points}

\* seen_texts when a document is reached: the texts kept so far
SeenTexts(chunks_so_far) == {x.text : x \in Range(chunks_so_far)}

\* all_chunks once the documents docs[d..] have gone through lines 120-129
RECURSIVE ChunkFrom(_, _, _)
ChunkFrom(docs, d, acc) ==
    IF d > Len(docs) THEN acc
    ELSE ChunkFrom(docs, d + 1, acc \o DocChunks(docs[d], 1, SeenTexts(acc)))

\* seen_texts = set(); all_chunks = []; the loops of lines 120-129
AllChunks(docs) == ChunkFrom(docs, 1, <<>>)

\* the crawl service returns the document of page u as markdown
PageOutcome(u) == Outcome("json", PageChars(u), NoHtml, 0, TRUE, 200, "")

TopUrls(r) == [i \in 1..Len(results[r]) |-> results[r][i].url]

\* a request that has failed inside an await
Fail(r, summary, sources) ==
    /\ pc' = [pc EXCEPT ![r] = "done"]
    /\ answer' = [answer EXCEPT ![r] =
                     IF entry[r] = "web_search" THEN Response(summary, sources)
                     ELSE Raised(summary)]

\* lines 112-120 once ensure_collection has returned: the cleanup task is
\* created (web_search only), the query id drawn and chunk_markdown entered
\* for the first document, where it returns to the event loop (line 40 of
\* chunk_breaker.py, at the sentence of index 0)
AfterEnsure(r) ==
    /\ bg' = [bg EXCEPT ![r] = IF entry[r] = "web_search" THEN "scheduled" ELSE @]
    /\ query_id' = [query_id EXCEPT ![r] = Uuid(r, 0)]
    /\ all_chunks' = [all_chunks EXCEPT ![r] = <<>>]
    /\ chunking' = [chunking EXCEPT ![r] = 1]
    /\ pc' = [pc EXCEPT ![r] = "chunk"]

\* ensure_collection, first await: client.get_collections()
EnsureGet(r) ==
    /\ pc[r] = "ensure_get"
    /\ IF coll
       THEN AfterEnsure(r)
       ELSE /\ pc' = [pc EXCEPT ![r] = "ensure_create"]
            /\ UNCHANGED <<bg, query_id, all_chunks, chunking>>
    /\ UNCHANGED <<entry, results, tasks, crawled, reordered, markdown_docs, answer,
                   sem, hits, coll, points, now, pending, deleting>>

\* client.recreate_collection: the collection is deleted and created empty
RecreateCollection(pts) == {}

\* ensure_collection, second await: COLL was not in the list it got.  The
\* collection is created again whatever it has become since the list was read.
EnsureCreate(r) ==
    /\ pc[r] = "ensure_create"
    /\ coll' = TRUE
    /\ points' = RecreateCollection(points)
    /\ AfterEnsure(r)
    /\ UNCHANGED <<entry, results, tasks, crawled, reordered, markdown_docs, answer,
                   sem, hits, now, pending, deleting>>

\* chunk_markdown goes on after its asyncio.sleep(0) and returns the chunks
\* of the document the request is at (the documents of the model have under
\* 100 sentences, so it does not sleep again), lines 121-129 keep the new
\* texts, and the request runs on to its next await: the sleep of
\* chunk_markdown for the next document or, after the last one, the
\* embedding call of index_chunks (no chunk kept: the one of retrieve)
ChunkDoc(r) ==
    /\ pc[r] = "chunk"
    /\ LET kept == all_chunks[r] \o
                    DocChunks(markdown_docs[r][chunking[r]], 1, SeenTexts(all_chunks[r]))
       IN  /\ all_chunks' = [all_chunks EXCEPT ![r] = kept]
           /\ IF chunking[r] < Len(markdown_docs[r])
              THEN /\ chunking' = [chunking EXCEPT ![r] = @ + 1]
                   /\ UNCHANGED pc
              ELSE /\ chunking' = [chunking EXCEPT ![r] = 0]
                   /\ pc' = [pc EXCEPT ![r] = IF Len(kept) > 0 THEN "index" ELSE "retrieve"]
    /\ UNCHANGED <<entry, results, tasks, crawled, reordered, markdown_docs, answer,
                   sem, query_id, hits, bg, coll, points, now, pending, deleting>>

\* the vector store fails inside ensure_collection
EnsureRaise(r) ==
    /\ pc[r] \in {"ensure_get", "ensure_create"}
    /\ Fail(r, "Erro inesperado na busca.", <<>>)
    /\ UNCHANGED <<entry, results, tasks, crawled, reordered, markdown_docs, sem>>
    /\ UNCHANGED index_vars

\* the points one call of index_chunks(cs, qid) builds at time t from
\* zip(chunks, vecs), the embedding provider having returned nvecs vectors:
\* one per pair, each with an id of its own (str(uuid.uuid4()), line 112: no
\* two calls draw the same id, so the ids carry the number of the call)
index_chunks(cs, qid, t, nvecs, call) ==
    {[id |-> Uuid(call, i), url |-> cs[i].url, title |-> cs[i].title,
      text |-> cs[i].text, query_id |-> qid, timestamp |-> t, n |-> 1]
     : i \in 1..Min(nvecs, Len(cs))}

\* the points of the one call a request makes, numbered by the request
NewPoints(r, nvecs) == index_chunks(all_chunks[r], query_id[r], now, nvecs, r)

\* index_chunks up to its second await (lines 97-125): the texts are
\* embedded, nvecs vectors come back, the clock is read and the points are
\* built
IndexEmbed(r, nvecs) ==
    /\ pc[r] = "index"
    /\ nvecs >= 1
    /\ pending' = [pending EXCEPT ![r] = NewPoints(r, nvecs)]
    /\ pc' = [pc EXCEPT ![r] = "upsert"]
    /\ UNCHANGED <<entry, results, tasks, crawled, reordered, markdown_docs, answer, sem,
                   query_id, all_chunks, chunking, hits, bg, coll, points, now, deleting>>

\* await client.upsert (line 126): the points built are added as they were
\* stamped, and index_chunks returns
IndexUpsert(r) ==
    /\ pc[r] = "upsert"
    /\ coll
    /\ points' = points \cup pending[r]
    /\ pending' = [pending EXCEPT ![r] = {}]
    /\ pc' = [pc EXCEPT ![r] = "retrieve"]
    /\ UNCHANGED <<entry, results, tasks, crawled, reordered, markdown_docs, answer, sem,
                   query_id, all_chunks, chunking, hits, bg, coll, now, deleting>>

\* the embedding provider or the vector store fails inside index_chunks
IndexRaise(r) ==
    /\ pc[r] \in {"index", "upsert"}
    /\ Fail(r, "Erro ao indexar conteudo.", <<>>)
    /\ pending' = [pending EXCEPT ![r] = {}]
    /\ UNCHANGED <<entry, results, tasks, crawled, reordered, markdown_docs, sem>>
    /\ UNCHANGED <<query_id, all_chunks, chunking, hits, bg, coll, points, now, deleting>>

\* a search that falls back to the whole collection when the namespace is empty
SearchWithFallback(pts, qid) ==
    IF {p \in pts : p.query_id = qid} # {} THEN {p \in pts : p.query_id = qid} ELSE pts

\* client.search with query_filter: the points whose payload query_id is qid
SearchFiltered(pts, qid) == {p \in pts : p.query_id = qid}

\* limit=top_k: the top_k best of the matching points
TopHits(matching, k) ==
    {H \in SUBSET matching : Cardinality(H) = Min(k, Cardinality(matching))}

\* retrieve(request.query, query_id, top_k=8) returns and the request goes on
\* to line 147 (web_search) or 222 (web_search_context)
Retrieve(r) ==
    /\ pc[r] = "retrieve"
    /\ coll
    /\ \E H \in TopHits(SearchFiltered(points, query_id[r]), TopK) :
          /\ hits' = [hits EXCEPT ![r] = H]
          /\ IF entry[r] = "web_search"
             THEN IF H = {}
                  THEN /\ pc' = [pc EXCEPT ![r] = "done"]
                       /\ answer' = [answer EXCEPT ![r] =
                              Response("Nao encontrei informacao relevante.",
                                       FirstN(TopUrls(r), ErrorSources))]
                  ELSE /\ pc' = [pc EXCEPT ![r] = "summarize"]
                       /\ UNCHANGED answer
             ELSE /\ pc' = [pc EXCEPT ![r] = "done"]
                  /\ answer' = [answer EXCEPT ![r] =
                         ContextResponse({[url |-> h.url, title |-> h.title,
                                           snippet |-> h.text] : h \in H})]
    /\ UNCHANGED <<entry, results, tasks, crawled, reordered, markdown_docs, sem,
                   query_id, all_chunks, chunking, bg, coll, points, now, pending, deleting>>

\* the embedding provider or the vector store fails inside retrieve
RetrieveRaise(r) ==
    /\ pc[r] = "retrieve"
    /\ Fail(r, "Erro no processamento de informacoes.", FirstN(TopUrls(r), ErrorSources))
    /\ UNCHANGED <<entry, results, tasks, crawled, reordered, markdown_docs, sem>>
    /\ UNCHANGED index_vars

\* the orders the similarity search may rank the hits in
Orders(H) ==
    {q \in [1..Cardinality(H) -> H] : \A i, j \in 1..Cardinality(H) : i # j => q[i] # q[j]}

\* lines 151-165: the context is joined in the order of the hits, summarize
\* returns and _extract_sources makes the response of it
SynthesizedAnswer(r, ranked, key, llm) ==
    LET context == Context([i \in 1..Len(ranked) |-> ranked[i].text])
        raw     == summarize(context, key, llm)
        out     == extract_sources(raw.text, TopUrls(r))
    IN  IF raw.kind = "raised"
        THEN Response("Erro no processamento de informacoes.",
                      FirstN(TopUrls(r), ErrorSources))
        ELSE Answer("synthesized", out.sources, out.summary)

Summarize(r) ==
    /\ pc[r] = "summarize"
    /\ pc' = [pc EXCEPT ![r] = "done"]
    /\ \E ranked \in Orders(hits[r]) : \E key \in BOOLEAN : \E llm \in LlmOutcomes :
          answer' = [answer EXCEPT ![r] = SynthesizedAnswer(r, ranked, key, llm)]
    /\ UNCHANGED <<entry, results, tasks, crawled, reordered, markdown_docs, sem>>
    /\ UNCHANGED index_vars

\* lines 167-168: cutoff_time of a call made at time t
CutoffTime(t, h) == t - h * SecondsPerHour

\* a cleanup that also deletes the points stamped with the cutoff itself
DeleteOldInclusive(pts, cutoff) == {p \in pts : ~(p.timestamp <= cutoff)}

\* the delete of cleanup_old_chunks: the points with timestamp < cutoff_time go
DeleteOld(pts, cutoff) == {p \in pts : ~(p.timestamp < cutoff)}

\* POST /admin/cleanup?max_age_hours=h arrives: cleanup_old_chunks reads the
\* clock and builds its filter (lines 164-178)
AdminCleanup(h) ==
    /\ Cardinality(deleting[Admin]) < MaxSweeps
    /\ deleting' = [deleting EXCEPT ![Admin] = @ \cup {CutoffTime(now, h)}]
    /\ UNCHANGED <<crawl_vars, query_id, all_chunks, chunking, hits, bg, coll, points, now, pending>>

\* await client.delete (line 180) of the admin call whose cutoff_time is c
AdminDelete(c) ==
    /\ c \in deleting[Admin]
    /\ coll
    /\ points' = DeleteOld(points, c)
    /\ deleting' = [deleting EXCEPT ![Admin] = @ \ {c}]
    /\ UNCHANGED <<crawl_vars, query_id, all_chunks, chunking, hits, bg, coll, now, pending>>

\* the delete of the admin call raises and the endpoint answers 500
AdminFail(c) ==
    /\ c \in deleting[Admin]
    /\ deleting' = [deleting EXCEPT ![Admin] = @ \ {c}]
    /\ UNCHANGED <<crawl_vars, query_id, all_chunks, chunking, hits, bg, coll, points, now, pending>>

\* cleanup_query_chunks(query_id)
CleanupQuery(qid) ==
    /\ coll
    /\ points' = {p \in points : p.query_id # qid}
    /\ UNCHANGED <<crawl_vars, query_id, all_chunks, chunking, hits, bg, coll, now, pending, deleting>>

\* delete_all_collections(): every collection the store lists is deleted.
\* The list is read at one await and the collection deleted at the next; a
\* call that lists no collection returns at once, and a delete that finds
\* the collection gone only logs, so a call acts as this step taken at its
\* delete or not at all
DeleteAllCollections ==
    /\ coll
    /\ coll' = FALSE
    /\ points' = {}
    /\ UNCHANGED <<crawl_vars, query_id, all_chunks, chunking, hits, bg, now, pending, deleting>>

\* n points an earlier run of the service left in the collection, all of one
\* request and indexed 25 hours before the clock of the model starts; they
\* stand in the set of points as one record of weight n
Bulk(n) ==
    [id |-> Uuid(0, 1), url |-> "u0", title |-> TitleOf("u0"),
     text |-> Hit("z", ChunkMinChars), query_id |-> Uuid(0, 0),
     timestamp |-> 0 - (BackgroundMaxAge + 1) * SecondsPerHour, n |-> n]

\* get_collection_stats()["points_count"]
RECURSIVE PointsCount(_)
PointsCount(pts) ==
    IF pts = {} THEN 0
    ELSE LET p == CHOOSE x \in pts : TRUE IN p.n + PointsCount(pts \ {p})

\* a check that starts the cleanup at the high-water mark itself
CleanupDueAtMark(exists, pts) == exists /\ PointsCount(pts) >= HighWater

\* line 27: stats and stats.get("points_count", 0) > 10000; the stats of a
\* collection that does not exist count 0 points
CleanupDue(exists, pts) == exists /\ PointsCount(pts) > HighWater

\* the task made of _background_cleanup_if_needed runs up to its second
\* await: get_collection_stats returns, and over the mark cleanup_old_chunks
\* is called, reads the clock and builds its filter (lines 26-29, 164-178)
BackgroundStats(r) ==
    /\ bg[r] = "scheduled"
    /\ IF CleanupDue(coll, points)
       THEN /\ bg' = [bg EXCEPT ![r] = "cleaning"]
            /\ deleting' = [deleting EXCEPT ![r] = {CutoffTime(now, BackgroundMaxAge)}]
       ELSE /\ bg' = [bg EXCEPT ![r] = "done"]
            /\ UNCHANGED deleting
    /\ UNCHANGED <<crawl_vars, query_id, all_chunks, chunking, hits, coll, points, now, pending>>

\* await client.delete (line 180) of the task's cleanup_old_chunks
BackgroundDelete(r) ==
    /\ bg[r] = "cleaning"
    /\ coll
    /\ \E c \in deleting[r] : points' = DeleteOld(points, c)
    /\ deleting' = [deleting EXCEPT ![r] = {}]
    /\ bg' = [bg EXCEPT ![r] = "done"]
    /\ UNCHANGED <<crawl_vars, query_id, all_chunks, chunking, hits, coll, now, pending>>

\* the task fails: get_collection_stats returns None, or the delete of
\* cleanup_old_chunks raises and line 31 catches it
BackgroundFail(r, what) ==
    /\ what = "stats" => bg[r] = "scheduled"
    /\ what = "delete" => bg[r] = "cleaning"
    /\ bg' = [bg EXCEPT ![r] = "failed"]
    /\ deleting' = [deleting EXCEPT ![r] = {}]
    /\ UNCHANGED <<crawl_vars, query_id, all_chunks, chunking, hits, coll, points, now, pending>>

\* an hour passes
Tick ==
    /\ now < MaxTicks * SecondsPerHour
    /\ now' = now + SecondsPerHour
    /\ UNCHANGED <<crawl_vars, query_id, all_chunks, chunking, hits, bg, coll, points, pending, deleting>>

\* ---- Spec: whole requests on the shared collection ----
MainPages == {"u1", "u3"}

MainLists ==
    {ResultList(q) : q \in {x \in DistinctUrlSeqs(MainUrls) :
                              Len(x) > 0 /\ Range(x) \subseteq MainPages}}

MainOutcomes == {LongOutcome, TimeoutOutcome}

\* the collection of Spec stays under the high-water mark: the task of
\* _background_cleanup_if_needed ends at its stats.  The cleanups by age, which
\* need the clock, run beside the index stage in SpecSweep and SpecTask.
Init == ChunkIdle /\ CrawlIdle /\ IndexIdle /\ AnswerIdle /\ SelectIdle /\ StoreIdle

Next ==
    \/ \E r \in Req : \E e \in Entries : Start(r, e) /\ UNCHANGED <<chunk_vars, index_vars, answer_vars, select_vars, store_vars>>
    \/ \E r \in Req : \E res \in MainLists : SearchReturn(r, res) /\ UNCHANGED <<chunk_vars, index_vars, answer_vars, select_vars, store_vars>>
    \/ \E r \in Req : \E i \in 1..MainUrls : CrawlAcquire(r, i) /\ UNCHANGED <<chunk_vars, index_vars, answer_vars, select_vars, store_vars>>
    \/ \E r \in Req : \E i \in 1..MainUrls : \E o \in MainOutcomes :
          CrawlFinish(r, i, o) /\ UNCHANGED <<chunk_vars, index_vars, answer_vars, select_vars, store_vars>>
    \/ \E r \in Req : Assemble(r) /\ UNCHANGED <<chunk_vars, index_vars, answer_vars, select_vars, store_vars>>
    \/ \E r \in Req : EnsureGet(r) /\ UNCHANGED <<chunk_vars, answer_vars, select_vars, store_vars>>
    \/ \E r \in Req : EnsureCreate(r) /\ UNCHANGED <<chunk_vars, answer_vars, select_vars, store_vars>>
    \/ \E r \in Req : EnsureRaise(r) /\ UNCHANGED <<chunk_vars, answer_vars, select_vars, store_vars>>
    \/ \E r \in Req : ChunkDoc(r) /\ UNCHANGED <<chunk_vars, answer_vars, select_vars, store_vars>>
    \/ \E r \in Req : \E nvecs \in 1..(Len(all_chunks[r]) + 1) : IndexEmbed(r, nvecs) /\ UNCHANGED <<chunk_vars, answer_vars, select_vars, store_vars>>
    \/ \E r \in Req : IndexUpsert(r) /\ UNCHANGED <<chunk_vars, answer_vars, select_vars, store_vars>>
    \/ \E r \in Req : IndexRaise(r) /\ UNCHANGED <<chunk_vars, answer_vars, select_vars, store_vars>>
    \/ \E r \in Req : Retrieve(r) /\ UNCHANGED <<chunk_vars, answer_vars, select_vars, store_vars>>
    \/ \E r \in Req : RetrieveRaise(r) /\ UNCHANGED <<chunk_vars, answer_vars, select_vars, store_vars>>
    \/ \E r \in Req : Summarize(r) /\ UNCHANGED <<chunk_vars, answer_vars, select_vars, store_vars>>
    \/ \E r \in Req : BackgroundStats(r) /\ UNCHANGED <<chunk_vars, answer_vars, select_vars, store_vars>>
    \/ \E r \in Req : CleanupQuery(Uuid(r, 0)) /\ UNCHANGED <<chunk_vars, answer_vars, select_vars, store_vars>>
    \/ DeleteAllCollections /\ UNCHANGED <<chunk_vars, answer_vars, select_vars, store_vars>>

Spec == Init /\ [][Next]_vars

\* ---- SpecDedup: requests that leave the crawl stage with documents ----
\* the result lists of request 1, repeated urls included; every page of them
\* gave a document
IndexPages == Urls \cup {"u5", "u6"}

DedupLists == {q \in SeqsOver(IndexPages, MaxDocs) : Len(q) > 0}

\* the result list of request 2
OtherList == <<"u3", "u1">>

\* both requests are at line 109 (web_search) or 201 (web_search_context):
\* every url of the result list was crawled and gave the document of its page
DedupInit ==
    /\ ChunkIdle
    /\ IndexIdle
    /\ AnswerIdle /\ SelectIdle /\ StoreIdle
    /\ results \in {<<ResultList(q), ResultList(OtherList)>> : q \in DedupLists}
    /\ entry \in {<<e, "web_search">> : e \in Entries}
    /\ pc = [r \in Req |-> "ensure_get"]
    /\ tasks = [r \in Req |-> [i \in 1..Len(results[r]) |-> "done"]]
    /\ crawled = [r \in Req |->
                     [i \in 1..Len(results[r]) |->
                         crawl_markdown(results[r][i].url, PageOutcome(results[r][i].url))]]
    /\ reordered = [r \in Req |-> FALSE]
    /\ markdown_docs = [r \in Req |-> DocsFrom(results[r], crawled[r], 1)]
    /\ answer = [r \in Req |-> NoAnswer]
    /\ sem = CrawlSlots

DedupNext ==
    \/ \E r \in Req : EnsureGet(r) /\ UNCHANGED <<chunk_vars, answer_vars, select_vars, store_vars>>
    \/ \E r \in Req : EnsureCreate(r) /\ UNCHANGED <<chunk_vars, answer_vars, select_vars, store_vars>>
    \/ \E r \in Req : ChunkDoc(r) /\ UNCHANGED <<chunk_vars, answer_vars, select_vars, store_vars>>
    \/ \E r \in Req : \E nvecs \in 1..(Len(all_chunks[r]) + 1) : IndexEmbed(r, nvecs) /\ UNCHANGED <<chunk_vars, answer_vars, select_vars, store_vars>>
    \/ \E r \in Req : IndexUpsert(r) /\ UNCHANGED <<chunk_vars, answer_vars, select_vars, store_vars>>
    \/ \E r \in Req : Retrieve(r) /\ UNCHANGED <<chunk_vars, answer_vars, select_vars, store_vars>>
    \/ \E r \in Req : RetrieveRaise(r) /\ UNCHANGED <<chunk_vars, answer_vars, select_vars, store_vars>>
    \/ \E r \in Req : Summarize(r) /\ UNCHANGED <<chunk_vars, answer_vars, select_vars, store_vars>>

SpecDedup == DedupInit /\ [][DedupNext]_vars

\* ---- SpecSweep: the cleanups beside requests that are indexing ----
\* the max_age_hours values sent to the admin endpoint: any integer passes
SweepAges == {0 - 1, 0, 1}

\* the result lists of the two requests
SweepLists == <<ResultList(<<"u1">>), ResultList(<<"u1", "u2">>)>>

\* what the collection holds when the requests arrive
StoreContents == {{}, {Bulk(HighWater - 1)}, {Bulk(HighWater)}}

\* both requests have run up to line 135 (215): the collection exists, the
\* documents are chunked and web_search has created its cleanup task
SweepInit ==
    /\ ChunkIdle
    /\ AnswerIdle /\ SelectIdle /\ StoreIdle
    /\ results = SweepLists
    /\ entry \in {<<e, "web_search">> : e \in Entries}
    /\ pc = [r \in Req |-> "index"]
    /\ tasks = [r \in Req |-> [i \in 1..Len(results[r]) |-> "done"]]
    /\ crawled = [r \in Req |->
                     [i \in 1..Len(results[r]) |->
                         crawl_markdown(results[r][i].url, PageOutcome(results[r][i].url))]]
    /\ reordered = [r \in Req |-> FALSE]
    /\ markdown_docs = [r \in Req |-> DocsFrom(results[r], crawled[r], 1)]
    /\ answer = [r \in Req |-> NoAnswer]
    /\ sem = CrawlSlots
    /\ query_id = [r \in Req |-> Uuid(r, 0)]
    /\ all_chunks = [r \in Req |-> AllChunks(markdown_docs[r])]
    /\ chunking = [r \in Req |-> 0]
    /\ hits = [r \in Req |-> {}]
    /\ bg = [r \in Req |-> IF entry[r] = "web_search" THEN "scheduled" ELSE "none"]
    /\ coll = TRUE
    /\ points \in StoreContents
    /\ now = 0
    /\ pending = [r \in Req |-> {}]
    /\ deleting = [c \in Sweepers |-> {}]

SweepNext ==
    \/ \E r \in Req : \E nvecs \in 1..(Len(all_chunks[r]) + 1) : IndexEmbed(r, nvecs) /\ UNCHANGED <<chunk_vars, answer_vars, select_vars, store_vars>>
    \/ \E r \in Req : IndexUpsert(r) /\ UNCHANGED <<chunk_vars, answer_vars, select_vars, store_vars>>
    \/ \E r \in Req : IndexRaise(r) /\ UNCHANGED <<chunk_vars, answer_vars, select_vars, store_vars>>
    \/ \E r \in Req : Retrieve(r) /\ UNCHANGED <<chunk_vars, answer_vars, select_vars, store_vars>>
    \/ \E r \in Req : BackgroundStats(r) /\ UNCHANGED <<chunk_vars, answer_vars, select_vars, store_vars>>
    \/ \E r \in Req : BackgroundDelete(r) /\ UNCHANGED <<chunk_vars, answer_vars, select_vars, store_vars>>
    \/ \E h \in SweepAges : AdminCleanup(h) /\ UNCHANGED <<chunk_vars, answer_vars, select_vars, store_vars>>
    \/ \E c \in deleting[Admin] : AdminDelete(c) /\ UNCHANGED <<chunk_vars, answer_vars, select_vars, store_vars>>
    \/ \E c \in deleting[Admin] : AdminFail(c) /\ UNCHANGED <<chunk_vars, answer_vars, select_vars, store_vars>>
    \/ Tick /\ UNCHANGED <<chunk_vars, answer_vars, select_vars, store_vars>>

SpecSweep == SweepInit /\ [][SweepNext]_vars

\* ---- SpecTask: the background cleanup task beside its requests ----
\* the requests run from their index stage to their answers while the tasks
\* web_search created read the stats, delete or fail
TaskNext ==
    \/ \E r \in Req : \E nvecs \in 1..(Len(all_chunks[r]) + 1) : IndexEmbed(r, nvecs) /\ UNCHANGED <<chunk_vars, answer_vars, select_vars, store_vars>>
    \/ \E r \in Req : IndexUpsert(r) /\ UNCHANGED <<chunk_vars, answer_vars, select_vars, store_vars>>
    \/ \E r \in Req : IndexRaise(r) /\ UNCHANGED <<chunk_vars, answer_vars, select_vars, store_vars>>
    \/ \E r \in Req : Retrieve(r) /\ UNCHANGED <<chunk_vars, answer_vars, select_vars, store_vars>>
    \/ \E r \in Req : Summarize(r) /\ UNCHANGED <<chunk_vars, answer_vars, select_vars, store_vars>>
    \/ \E r \in Req : BackgroundStats(r) /\ UNCHANGED <<chunk_vars, answer_vars, select_vars, store_vars>>
    \/ \E r \in Req : BackgroundDelete(r) /\ UNCHANGED <<chunk_vars, answer_vars, select_vars, store_vars>>
    \/ \E r \in Req : \E what \in {"stats", "delete"} :
          BackgroundFail(r, what) /\ UNCHANGED <<chunk_vars, answer_vars, select_vars, store_vars>>
    \/ Tick /\ UNCHANGED <<chunk_vars, answer_vars, select_vars, store_vars>>

SpecTask == SweepInit /\ [][TaskNext]_vars

\* ---- SpecAwait: the remote calls of the index stage, answered or not ----
\* the embedding provider (inside index_chunks or retrieve) or the LLM (inside
\* summarize) never answers: the call is awaited with no timeout and no
\* asyncio.wait_for around it, and the request stays in the await
ProviderSilent(r) ==
    /\ pc[r] \in {"index", "retrieve", "summarize"}
    /\ pc' = [pc EXCEPT ![r] = "awaiting"]
    /\ UNCHANGED <<entry, results, tasks, crawled, reordered, markdown_docs, answer, sem>>
    /\ UNCHANGED index_vars

AwaitNext ==
    \/ \E r \in Req : \E nvecs \in 1..(Len(all_chunks[r]) + 1) : IndexEmbed(r, nvecs) /\ UNCHANGED <<chunk_vars, answer_vars, select_vars, store_vars>>
    \/ \E r \in Req : IndexUpsert(r) /\ UNCHANGED <<chunk_vars, answer_vars, select_vars, store_vars>>
    \/ \E r \in Req : IndexRaise(r) /\ UNCHANGED <<chunk_vars, answer_vars, select_vars, store_vars>>
    \/ \E r \in Req : Retrieve(r) /\ UNCHANGED <<chunk_vars, answer_vars, select_vars, store_vars>>
    \/ \E r \in Req : RetrieveRaise(r) /\ UNCHANGED <<chunk_vars, answer_vars, select_vars, store_vars>>
    \/ \E r \in Req : Summarize(r) /\ UNCHANGED <<chunk_vars, answer_vars, select_vars, store_vars>>
    \/ \E r \in Req : ProviderSilent(r) /\ UNCHANGED <<chunk_vars, answer_vars, select_vars, store_vars>>

\* the event loop runs a coroutine that can go on
SpecAwait == SweepInit /\ [][AwaitNext]_vars /\ WF_vars(AwaitNext)

\* ---- SpecStore: index_chunks and the two cleanups called on the store ----
\* the url of the chunks indexed in SpecStore
StorePage == "u2"

StoreChunkLists ==
    LET all == AllChunks(<<[url |-> StorePage, title |-> TitleOf(StorePage),
                            markdown |-> Text(StorePage, PageChars(StorePage))]>>)
    IN  {FirstN(all, k) : k \in 0..Len(all)}

StoreIds == {Uuid(1, 0), Uuid(2, 0)}

StoreInit ==
    /\ ChunkIdle /\ CrawlIdle /\ AnswerIdle /\ SelectIdle /\ StoreIdle
    /\ query_id = [r \in Req |-> NoId]
    /\ all_chunks = [r \in Req |-> <<>>]
    /\ chunking = [r \in Req |-> 0]
    /\ hits = [r \in Req |-> {}]
    /\ bg = [r \in Req |-> "none"]
    /\ coll = TRUE
    /\ points = {}
    /\ now = 0
    /\ pending = [r \in Req |-> {}]
    /\ deleting = [c \in Sweepers |-> {}]

\* the caller r awaits index_chunks(cs, qid): nothing happens on an empty
\* list (lines 99-101); otherwise the vectors come back, the clock is read
\* and the points are built under fresh ids
StoreEmbed(r, cs, qid, nvecs) ==
    /\ minted < MaxCalls
    /\ pending[r] = {}
    /\ nvecs >= 1
    /\ IF Len(cs) = 0
       THEN UNCHANGED <<pending, minted>>
       ELSE /\ pending' = [pending EXCEPT ![r] = index_chunks(cs, qid, now, nvecs, minted + 1)]
            /\ minted' = minted + 1
    /\ UNCHANGED creating
    /\ UNCHANGED <<crawl_vars, query_id, all_chunks, chunking, hits, bg, coll, points, now, deleting>>

\* await client.upsert (line 126) of the call of r
StoreUpsert(r) ==
    /\ pending[r] # {}
    /\ coll
    /\ points' = points \cup pending[r]
    /\ pending' = [pending EXCEPT ![r] = {}]
    /\ UNCHANGED <<crawl_vars, query_id, all_chunks, chunking, hits, bg, coll, now, deleting>>

\* the upsert raises and index_chunks raises to its caller
StoreRaise(r) ==
    /\ pending[r] # {}
    /\ pending' = [pending EXCEPT ![r] = {}]
    /\ UNCHANGED <<crawl_vars, query_id, all_chunks, chunking, hits, bg, coll, points, now, deleting>>

\* ensure_collection is called and client.get_collections() is answered
\* (lines 76-80): with COLL in the list the call returns, without it the
\* call goes on to recreate the collection
StoreList ==
    /\ creating < MaxEnsures
    /\ creating' = IF coll THEN creating ELSE creating + 1
    /\ UNCHANGED minted
    /\ UNCHANGED <<crawl_vars, index_vars>>

\* client.recreate_collection (lines 82-86) of a call whose list had no
\* COLL: the collection is deleted and created empty, whatever another
\* call has made of it since the list was read
StoreCreate ==
    /\ creating > 0
    /\ creating' = creating - 1
    /\ coll' = TRUE
    /\ points' = RecreateCollection(points)
    /\ UNCHANGED minted
    /\ UNCHANGED <<crawl_vars, query_id, all_chunks, chunking, hits, bg, now, pending, deleting>>

StoreNext ==
    \/ \E r \in Req : \E c \in StoreChunkLists : \E q \in StoreIds : \E nvecs \in 1..(Len(c) + 1) :
          StoreEmbed(r, c, q, nvecs) /\ UNCHANGED <<chunk_vars, answer_vars, select_vars>>
    \/ \E r \in Req : StoreUpsert(r) /\ UNCHANGED <<chunk_vars, answer_vars, select_vars, store_vars>>
    \/ \E r \in Req : StoreRaise(r) /\ UNCHANGED <<chunk_vars, answer_vars, select_vars, store_vars>>
    \/ \E q \in StoreIds : CleanupQuery(q) /\ UNCHANGED <<chunk_vars, answer_vars, select_vars, store_vars>>
    \/ \E h \in SweepAges : AdminCleanup(h) /\ UNCHANGED <<chunk_vars, answer_vars, select_vars, store_vars>>
    \/ \E c \in deleting[Admin] : AdminDelete(c) /\ UNCHANGED <<chunk_vars, answer_vars, select_vars, store_vars>>
    \/ \E c \in deleting[Admin] : AdminFail(c) /\ UNCHANGED <<chunk_vars, answer_vars, select_vars, store_vars>>
    \/ DeleteAllCollections /\ UNCHANGED <<chunk_vars, answer_vars, select_vars, store_vars>>
    \/ StoreList /\ UNCHANGED <<chunk_vars, answer_vars, select_vars>>
    \/ StoreCreate /\ UNCHANGED <<chunk_vars, answer_vars, select_vars>>
    \/ Tick /\ UNCHANGED <<chunk_vars, answer_vars, select_vars, store_vars>>

SpecStore == StoreInit /\ [][StoreNext]_vars

(***************************************************************************)
(* Claims about chunk_markdown (SpecChunk).                                *)
(***************************************************************************)
\* c is the run of words a..b of the document
IsDocRun(c) ==
    \E a \in 1..(Len(md) + 1) : \E b \in 0..Len(md) :
        /\ b - a + 1 = Len(c)
        /\ \A i \in 1..Len(c) : c[i] = md[a + i - 1]

\* c holds sentence s whole, s starting at position p of c
HoldsAt(c, s, p) ==
    /\ p + Len(s) - 1 <= Len(c)
    /\ \A i \in 1..Len(s) : c[p + i - 1] = s[i]

Holds(c, s) == \E p \in 1..(Len(c) + 1) : HoldsAt(c, s, p)

\* c is at most ov carried-over words followed by exactly the sentence s
SeedPlus(c, s, ov) ==
    /\ Len(c) >= Len(s)
    /\ Len(c) - Len(s) <= ov
    /\ HoldsAt(c, s, Len(c) - Len(s) + 1)

RealSentences == {s \in Range(sentences) : Len(s) > 0}

\* C8 as stated: every chunk has at most max_tokens words, or is a single
\* sentence longer than max_tokens kept whole.
C8_AsStated ==
    \A k \in 1..Len(chunks) :
        \/ Len(chunks[k]) <= max_tokens
        \/ \E s \in RealSentences : Len(s) > max_tokens /\ chunks[k] = s

\* C8 (amended): every chunk is a run of the document's words that has at most
\* max_tokens words, or else is at most overlap_tokens words carried over from
\* the window before followed by one sentence kept whole; so a chunk without
\* an oversized sentence has at most max_tokens + overlap_tokens words.
C8_ChunkSizeBound ==
    \A k \in 1..Len(chunks) :
        /\ IsDocRun(chunks[k])
        /\ \/ Len(chunks[k]) <= max_tokens
           \/ \E s \in RealSentences : SeedPlus(chunks[k], s, overlap_tokens)
        /\ \/ Len(chunks[k]) <= max_tokens + overlap_tokens
           \/ \E s \in RealSentences :
                 Len(s) > max_tokens /\ SeedPlus(chunks[k], s, overlap_tokens)

\* a chunk over max_tokens made of carried-over words and a sentence that
\* itself fits max_tokens has been returned
C8_Witness ==
    /\ c_pc = "done"
    /\ \E k \in 1..Len(chunks) : \E s \in RealSentences :
          /\ Len(chunks[k]) > max_tokens
          /\ Len(s) <= max_tokens
          /\ Len(chunks[k]) > Len(s)
          /\ SeedPlus(chunks[k], s, overlap_tokens)

\* the chunk made from the j-th closed window (closed[j] holds)
ChunkOfWindow(j) == Cardinality({i \in 1..j : closed[i]})

\* C9: when a forced split closes a window as chunk[i] and the window it
\* seeds is returned as chunk[i+1], the last min(overlap_tokens, words of
\* chunk[i]) words of chunk[i] are, in order, the first words of chunk[i+1].
C9_ChunkOverlap ==
    \A j \in 1..(Len(closed) - 1) :
        (closed[j] /\ closed[j + 1]) =>
            LET a == chunks[ChunkOfWindow(j)]
                b == chunks[ChunkOfWindow(j) + 1]
                t == Min(overlap_tokens, Len(a))
            IN  /\ Len(b) >= t
                /\ LastN(a, t) = FirstN(b, t)

\* two chunks of one forced split, the first longer than the overlap carried
C9_Witness ==
    /\ c_pc = "done"
    /\ overlap_tokens >= 1
    /\ \E j \in 1..(Len(closed) - 1) :
          /\ closed[j] /\ closed[j + 1]
          /\ Len(chunks[ChunkOfWindow(j)]) > overlap_tokens
          /\ Len(chunks[ChunkOfWindow(j) + 1]) > overlap_tokens

OversizedSentences == {s \in RealSentences : Len(s) > max_tokens}

\* C10 as stated: a chunk that holds a sentence longer than max_tokens holds
\* exactly the words of that sentence.
C10_AsStated ==
    c_pc = "done" =>
        \A s \in OversizedSentences : \A k \in 1..Len(chunks) :
            Holds(chunks[k], s) => chunks[k] = s

\* C10 (amended): a sentence s longer than max_tokens is kept whole: when it
\* has at least min_tokens words a chunk is returned that is at most
\* overlap_tokens words carried over from the window before followed by
\* exactly the words of s (s alone when overlap_tokens is 0 or s is the first
\* sentence); and when overlap_tokens is smaller than the length of s that is
\* the only chunk holding s, no chunk holding s has any other form.
C10_OversizedKeptWhole ==
    c_pc = "done" =>
        \A s \in OversizedSentences :
            LET holding == {k \in 1..Len(chunks) : Holds(chunks[k], s)}
                seeded  == {k \in 1..Len(chunks) : SeedPlus(chunks[k], s, overlap_tokens)}
            IN  /\ Len(s) >= min_tokens => seeded # {}
                /\ (overlap_tokens = 0 \/ s = sentences[1]) =>
                       \A k \in seeded : chunks[k] = s
                /\ overlap_tokens < Len(s) =>
                       /\ holding = seeded
                       /\ Cardinality(holding) <= 1

\* an oversized sentence was returned in a chunk that starts with carried words
C10_Witness ==
    /\ c_pc = "done"
    /\ \E s \in OversizedSentences : \E k \in 1..Len(chunks) :
          /\ Holds(chunks[k], s)
          /\ chunks[k] # s
          /\ SeedPlus(chunks[k], s, overlap_tokens)

(***************************************************************************)
(* Claims about the crawl fan-out (SpecPool, SpecCrawl).                   *)
(***************************************************************************)
\* the crawl_markdown calls in flight, over all requests
InFlight == {<<r, i>> \in Req \X TaskIds : i <= Len(tasks[r]) /\ tasks[r][i] = "inflight"}

Queued == {<<r, i>> \in Req \X TaskIds : i <= Len(tasks[r]) /\ tasks[r][i] = "queued"}

\* C3: over all requests, at most 5 crawl_markdown calls are in flight, and
\* the free slots are 5 less the calls in flight, so a queued crawl starts
\* only after one in flight has finished.
C3_CrawlCap ==
    /\ Cardinality(InFlight) <= CrawlSlots
    /\ sem = CrawlSlots - Cardinality(InFlight)
    /\ sem >= 0

\* all 5 slots are taken by crawls of two requests and another crawl waits
C3_Witness ==
    /\ Cardinality(InFlight) = CrawlSlots
    /\ Queued # {}
    /\ \E a, b \in InFlight : a[1] # b[1]

\* the gather of request r is over and lines 84-107 have run
Assembled(r) == pc[r] \notin {"idle", "search", "crawl"} /\ Len(results[r]) > 0

\* the crawl result of the url listed i-th in request r, wherever gather put it
ResultOf(r, i) ==
    {crawled[r][j] : j \in {k \in 1..Len(crawled[r]) :
                              /\ crawled[r][k].type # "pending"
                              /\ crawled[r][k].url = results[r][i].url}}

PosOf(r, u) == CHOOSE i \in 1..Len(results[r]) : results[r][i].url = u

\* C4: whatever the order the crawls finish in, markdown_docs lists the
\* documents in the order of the search results, each with the url and the
\* title of its search result and the text crawled from that url.
C4_OrderPreserved ==
    \A r \in Req : Assembled(r) =>
        LET docs == markdown_docs[r] IN
        /\ \A j \in 1..Len(docs) :
              /\ \E i \in 1..Len(results[r]) :
                    /\ docs[j].url = results[r][i].url
                    /\ docs[j].title = results[r][i].title
              /\ docs[j].markdown.page = docs[j].url
              /\ docs[j].title = TitleOf(docs[j].url)
        /\ \A j, k \in 1..Len(docs) :
              j < k => PosOf(r, docs[j].url) < PosOf(r, docs[k].url)

\* two documents were assembled from crawls that finished out of order
C4_Witness ==
    \E r \in Req :
        /\ Assembled(r)
        /\ reordered[r]
        /\ Len(markdown_docs[r]) >= 2

\* the crawl of a url failed: no text came back
Failed(res) == res.type = "dict" /\ res.markdown = NoText

\* what the except clauses of crawl_markdown put in error_message
ErrorKinds == {"timeout", "http", "exception"}

\* C5 as stated: crawl_markdown never raises, and for every kind of failure
\* (a timeout, an error status, a transport error, an empty page) the result
\* with empty text it returns is an error result, success being false.
C5_AsStated ==
    \A r \in Req : \A i \in 1..Len(crawled[r]) :
        /\ crawled[r][i].type \in {"pending", "dict"}
        /\ Failed(crawled[r][i]) => ~crawled[r][i].success

\* C5: crawl_markdown never raises: a timeout, an error status and a
\* transport error give a result with empty text and success false; an empty
\* page gives a result with empty text that carries the success, the status
\* and the error message of the answer of the crawl service, so it may say
\* success true with status 200; every url of the batch is crawled and
\* every url that gave a long enough text becomes a document, whatever
\* happened to the others.
C5_SoftCrawlFailures ==
    \A r \in Req :
        /\ \A i \in 1..Len(crawled[r]) :
              /\ crawled[r][i].type \in {"pending", "dict"}
              /\ (crawled[r][i].type = "dict" /\
                    crawled[r][i].error_message \in ErrorKinds) =>
                     (crawled[r][i].markdown = NoText /\ ~crawled[r][i].success)
              /\ (Failed(crawled[r][i]) /\
                    crawled[r][i].error_message \notin ErrorKinds) =>
                     \E o \in JsonOutcomes :
                        /\ CrawledText(crawled[r][i].url, o) = NoText
                        /\ crawled[r][i].success = o.success
                        /\ crawled[r][i].status_code = o.status_code
                        /\ crawled[r][i].error_message = o.error_message
        /\ Assembled(r) =>
              /\ \A i \in 1..Len(crawled[r]) : crawled[r][i].type = "dict"
              /\ \A i \in 1..Len(crawled[r]) :
                    crawled[r][i].markdown.len >= DocMinChars =>
                        \E j \in 1..Len(markdown_docs[r]) :
                            markdown_docs[r][j].url = crawled[r][i].url
              /\ (\E i \in 1..Len(crawled[r]) : crawled[r][i].markdown.len >= DocMinChars)
                     => answer[r] = NoAnswer

\* a batch in which one crawl timed out, one met an empty page, its result
\* saying success true with status 200, and one gave a document went on to
\* the index stage
C5_Witness ==
    \E r \in Req :
        /\ pc[r] = "ensure_get"
        /\ Len(markdown_docs[r]) = 1
        /\ \E i, j \in 1..Len(crawled[r]) :
              /\ crawled[r][i].type = "dict" /\ crawled[r][i].error_message = "timeout"
              /\ Failed(crawled[r][j])
              /\ crawled[r][j].success
              /\ crawled[r][j].status_code = 200
              /\ crawled[r][j].error_message = ""

\* C6 (scenario A): the search returned results and every crawl failed:
\* web_search returns exactly "Nao encontrei informacao suficiente." with an
\* empty source list.
C6_AllCrawlsFail ==
    \A r \in Req :
        (/\ entry[r] = "web_search"
         /\ Assembled(r)
         /\ \A i \in 1..Len(crawled[r]) : Failed(crawled[r][i]))
        => (pc[r] = "done" /\ answer[r] = Response(Insufficient, <<>>))

\* three crawls failed, each in its own way, and the request was answered
C6_Witness ==
    \E r \in Req :
        /\ entry[r] = "web_search"
        /\ pc[r] = "done"
        /\ Len(crawled[r]) = 3
        /\ \A i \in 1..3 : Failed(crawled[r][i])
        /\ crawled[r][1].error_message = "timeout"
        /\ crawled[r][2].error_message = "http"
        /\ crawled[r][3].error_message = ""

\* C7 as stated: web_search returns the crawl-stage failure answer only if
\* every url failed.
C7_AsStated ==
    \A r \in Req :
        (/\ entry[r] = "web_search"
         /\ Assembled(r)
         /\ \E i \in 1..Len(crawled[r]) : ~Failed(crawled[r][i]))
        => answer[r] # Response(Insufficient, <<>>)

\* C7 (amended): web_search returns the crawl-stage failure answer exactly
\* when no url gave a text of at least 300 characters; when at least one did,
\* it has a document and goes on to chunking and retrieval.
C7_EscalatesOnlyWithoutDocs ==
    \A r \in Req :
        (entry[r] = "web_search" /\ Assembled(r)) =>
            IF \E i \in 1..Len(results[r]) :
                  \E res \in ResultOf(r, i) :
                      res.type = "dict" /\ res.markdown.len >= DocMinChars
            THEN /\ answer[r] # Response(Insufficient, <<>>)
                 /\ Len(markdown_docs[r]) > 0
                 /\ pc[r] = "done" => answer[r].kind = "response"
            ELSE /\ pc[r] = "done"
                 /\ answer[r] = Response(Insufficient, <<>>)

\* a batch with a failed url, a url with a short text and a url with a text
\* of exactly 300 characters went on
C7_Witness ==
    \E r \in Req :
        /\ entry[r] = "web_search"
        /\ Assembled(r)
        /\ answer[r] = NoAnswer
        /\ \E i, j, k \in 1..Len(crawled[r]) :
              /\ Failed(crawled[r][i])
              /\ crawled[r][j].type = "dict"
              /\ crawled[r][j].markdown.len = DocMinChars - 1
              /\ crawled[r][k].type = "dict"
              /\ crawled[r][k].markdown.len = DocMinChars

(***************************************************************************)
(* Claims about the shared collection (Spec).                              *)
(***************************************************************************)
\* C1: whatever index_chunks, retrieve, cleanup_old_chunks and
\* cleanup_query_chunks calls were interleaved, what retrieve returned to a
\* request are points whose payload query_id is the request's own, indexed by
\* that request; two requests never have the same query_id, and a request
\* without points gets nothing.
C1_NamespaceIsolation ==
    \A r \in Req :
        /\ \A h \in hits[r] :
              /\ h.query_id = query_id[r]
              /\ h.id[2] = r
              /\ \E i \in 1..Len(all_chunks[r]) : all_chunks[r][i].text = h.text
        /\ \A q \in Req :
              (q # r /\ query_id[r] # NoId) => query_id[q] # query_id[r]
        /\ answer[r].kind = "context" =>
              \A sn \in answer[r].snippets :
                  \E i \in 1..Len(all_chunks[r]) :
                      /\ all_chunks[r][i].text = sn.snippet
                      /\ all_chunks[r][i].url = sn.url

\* a request whose namespace is empty was answered without hits while the
\* collection held the points of the other request
C1_Witness ==
    \E a, b \in Req :
        /\ a # b
        /\ pc[a] = "done"
        /\ answer[a] = Response("Nao encontrei informacao relevante.", FirstN(TopUrls(a), 3))
        /\ hits[a] = {}
        /\ hits[b] # {}
        /\ \E p \in points : p.query_id = query_id[b]

\* C2 as stated: no step of ensure_collection removes a point from the
\* collection.
C2_AsStated ==
    [][(\E r \in Req : EnsureGet(r) \/ EnsureCreate(r)) => points \subseteq points']_vars

(***************************************************************************)
(* Claims about the deduplicator (SpecDedup).                              *)
(***************************************************************************)
\* the request has run lines 118-131 (204-213)
Deduped(r) == query_id[r] # NoId /\ pc[r] # "chunk"

\* every chunk of the documents of request r, in document order
RECURSIVE RawChunks(_, _)
RawChunks(docs, d) ==
    IF d > Len(docs) THEN <<>>
    ELSE [c \in 1..Len(PageChunks(docs[d].markdown)) |->
             [url |-> docs[d].url, title |-> docs[d].title,
              text |-> PageChunks(docs[d].markdown)[c]]]
         \o RawChunks(docs, d + 1)

\* positions of raw that the deduplicator has to keep: long enough and the
\* first of its text
Kept(raw) ==
    {i \in 1..Len(raw) :
        /\ raw[i].text.len >= ChunkMinChars
        /\ \A j \in 1..(i - 1) : raw[j].text # raw[i].text}

\* C11: the chunk list handed to index_chunks has no two chunks of the same
\* text and no chunk under 200 characters; it holds, in document order, the
\* first occurrence of every text of at least 200 characters of the request's
\* own documents, whatever the other request has accepted or indexed.
C11_Deduplicator ==
    \A r \in Req : Deduped(r) =>
        LET out == all_chunks[r]
            raw == RawChunks(markdown_docs[r], 1)
        IN  /\ \A i, j \in 1..Len(out) : i # j => out[i].text # out[j].text
            /\ \A i \in 1..Len(out) : out[i].text.len >= ChunkMinChars
            /\ Len(out) = Cardinality(Kept(raw))
            /\ \A i \in 1..Len(out) :
                  \E k \in Kept(raw) :
                      /\ out[i] = raw[k]
                      /\ Cardinality({m \in Kept(raw) : m < k}) = i - 1

\* a request dropped a text its page repeats and a text an earlier page of
\* its own had given, and kept a text the other request had already indexed;
\* the other request dropped a chunk under 200 characters
C11_Witness ==
    \E a, b \in Req :
        /\ a # b
        /\ Deduped(a)
        /\ Deduped(b)
        /\ Len(markdown_docs[a]) = 2
        /\ markdown_docs[a][1].url = "u1"
        /\ markdown_docs[a][2].url = "u4"
        /\ Len(RawChunks(markdown_docs[a], 1)) = 5
        /\ Len(all_chunks[a]) = 3
        /\ Len(RawChunks(markdown_docs[b], 1)) = 2
        /\ Len(all_chunks[b]) = 1
        /\ \E p \in points : p.query_id = query_id[b] /\ p.text = all_chunks[a][1].text

(***************************************************************************)
(* Claims about the answer stage (SpecDedup, SpecSources, SpecSummarize).  *)
(***************************************************************************)
NoRepeats(q) == \A i, j \in 1..Len(q) : i # j => q[i] # q[j]

\* C12 as stated: the source list of every answer web_search returns has at
\* most 8 entries and no repeated url.
C12_AsStated ==
    \A r \in Req :
        (entry[r] = "web_search" /\ answer[r].kind = "response") =>
            /\ Len(answer[r].sources) <= SourceCap
            /\ NoRepeats(answer[r].sources)

\* the part of C12 about _extract_sources alone: at most 8 sources, none
\* repeated, in the order they were first seen
C12_ExtractBound ==
    es_pc = "done" =>
        /\ Len(es_sources) <= SourceCap
        /\ NoRepeats(es_sources)

\* the first position of url u in the sequence q
FirstAt(q, u) == CHOOSE i \in 1..Len(q) : q[i] = u /\ \A j \in 1..(i - 1) : q[j] # u

\* out lists, in the order of their first occurrence in src, the first
\* distinct urls of src, all of them or the first 8
FirstSeen(out, src) ==
    /\ NoRepeats(out)
    /\ \A i \in 1..Len(out) : out[i] \in Range(src)
    /\ \A i, j \in 1..Len(out) : i < j => FirstAt(src, out[i]) < FirstAt(src, out[j])
    /\ \A u \in Range(src) :
          u \in Range(out) \/
              (Len(out) = SourceCap /\ \A i \in 1..Len(out) : FirstAt(src, out[i]) < FirstAt(src, u))

\* C13 as stated: without a citation line the sources are the first 4
\* fallback urls; with one, they are the cited urls and no fallback url is
\* added; the summary is the text without its citation lines, every other
\* line kept in order. The text is the synthesized text, or the content of
\* its JSON envelope when it is one.
C13_AsStated ==
    es_pc = "done" =>
        /\ Cited(Unwrap(es_text)) = <<>> => es_sources = FirstN(es_fallback, FallbackCount)
        /\ Cited(Unwrap(es_text)) # <<>> => FirstSeen(es_sources, Cited(Unwrap(es_text)))
        /\ es_summary = Others(Unwrap(es_text))

\* C13 (amended): without a citation line the sources are the first 4
\* fallback urls with their repeats removed; with one, they are the cited
\* urls, repeats removed and capped at 8, and no fallback url is added; the
\* summary is the text without its citation lines, the other lines kept in
\* order except the blank lines at its two ends. The text is the synthesized
\* text, or the content of its JSON envelope when it is one.
C13_CitationFallback ==
    es_pc = "done" =>
        /\ Cited(Unwrap(es_text)) = <<>> =>
              FirstSeen(es_sources, FirstN(es_fallback, FallbackCount))
        /\ Cited(Unwrap(es_text)) # <<>> => FirstSeen(es_sources, Cited(Unwrap(es_text)))
        /\ \A i \in 1..Len(es_summary) : ~Matches(es_summary[i])
        /\ \E a, b \in 0..Len(Others(Unwrap(es_text))) :
              /\ es_summary = SubSeq(Others(Unwrap(es_text)), a + 1, Len(Others(Unwrap(es_text))) - b)
              /\ \A i \in 1..a : Others(Unwrap(es_text))[i].kind = "blank"
              /\ \A i \in (Len(Others(Unwrap(es_text))) - b + 1)..Len(Others(Unwrap(es_text))) :
                    Others(Unwrap(es_text))[i].kind = "blank"
              /\ es_summary # <<>> =>
                    (es_summary[1].kind # "blank" /\ es_summary[Len(es_summary)].kind # "blank")

\* a text without citation lines that ends in a blank line went through
\* with a fallback list longer than 4 whose first 4 urls hold a repeat
C13_Witness ==
    /\ es_pc = "done"
    /\ Cited(Unwrap(es_text)) = <<>>
    /\ Len(es_fallback) > FallbackCount
    /\ ~NoRepeats(FirstN(es_fallback, FallbackCount))
    /\ Len(es_sources) = 2
    /\ es_summary # <<>>
    /\ es_summary # Others(Unwrap(es_text))

\* C14: summarize never raises; without a credential it returns the context
\* as it is, and when the LLM call fails, whatever the failure, it returns
\* the first characters of the context, at most 10000 of them.
C14_SynthesisNeverFails ==
    sm_pc = "done" =>
        /\ sm_out.kind = "returned"
        /\ ~sm_key => sm_out.text = sm_context
        /\ (sm_key /\ sm_llm \in LlmFailures) =>
              /\ TextLen(sm_out.text) = Min(TextLen(sm_context), FallbackChars)
              /\ Len(sm_out.text) <= Len(sm_context)
              /\ \A i \in 1..Len(sm_out.text) :
                    /\ sm_out.text[i] = CutLine(sm_context[i], sm_out.text[i].len)
                    /\ sm_out.text[i].len <= sm_context[i].len
                    /\ i < Len(sm_out.text) => sm_out.text[i] = sm_context[i]
        /\ (sm_key /\ sm_llm.kind = "text") => sm_out.text = sm_llm.text

\* the LLM call failed on a context of more than 10000 characters and a cut
\* context came back
C14_Witness ==
    /\ sm_pc = "done"
    /\ sm_key
    /\ sm_llm.kind = "network_error"
    /\ TextLen(sm_context) > FallbackChars
    /\ sm_out.kind = "returned"
    /\ TextLen(sm_out.text) = FallbackChars
    /\ sm_out.text # sm_context

(***************************************************************************)
(* Claims about failures of the index stage (Spec, SpecDedup).             *)
(***************************************************************************)
\* C15 as stated: no failure of ensure_collection, index_chunks or retrieve
\* escapes web_search or web_search_context as an exception.
C15_AsStated ==
    \A r \in Req : answer[r].kind = "raised" => answer[r].error = "searx_search"

\* C16 as stated: when index_chunks returns normally it has upserted one
\* point for every chunk it was given.
C16_AsStated ==
    [][\A r \in Req :
          (pc[r] = "upsert" /\ pc'[r] = "retrieve") =>
              Cardinality({p \in points' : p.query_id = query_id[r]}) = Len(all_chunks[r])]_vars

(***************************************************************************)
(* Claims about the cleanups (SpecSweep, SpecTask, Spec).                  *)
(***************************************************************************)
PointsOf(r) == {p \in points : p.query_id = query_id[r]}

\* the step deletes exactly the points stamped before the cutoff c
DeletesExactly(c) ==
    /\ points' \subseteq points
    /\ \A p \in points : p \notin points' <=> p.timestamp < c

\* C17: cleanup_old_chunks(H), from the admin endpoint or from the background
\* task, takes as cutoff the clock it reads when called less H hours, and its
\* delete removes every point whose timestamp is under that cutoff and
\* leaves every other point, of every namespace, as it is.
C17_CleanupByAge ==
    [][/\ \A h \in SweepAges :
             AdminCleanup(h) =>
                 deleting'[Admin] = deleting[Admin] \cup {now - h * SecondsPerHour}
       /\ \A c \in deleting[Admin] : AdminDelete(c) => DeletesExactly(c)
       /\ \A r \in Req :
             /\ (BackgroundStats(r) /\ bg'[r] = "cleaning") =>
                    deleting'[r] = {now - BackgroundMaxAge * SecondsPerHour}
             /\ BackgroundDelete(r) => \A c \in deleting[r] : DeletesExactly(c)]_vars

\* the points of one request, an hour old, were deleted while those of the
\* other, stamped at the cutoff itself, were kept
C17_Witness ==
    \E a, b \in Req :
        /\ a # b
        /\ pc[a] = "retrieve"
        /\ PointsOf(a) = {}
        /\ pc[b] = "retrieve"
        /\ PointsOf(b) # {}
        /\ \A p \in PointsOf(b) : p.timestamp = now
        /\ now = SecondsPerHour

\* C18 as stated: no cleanup by age, from the background task or from the
\* admin endpoint, deletes a point of a request that has indexed and has not
\* retrieved yet.
C18_AsStated ==
    [][((\E c \in deleting[Admin] : AdminDelete(c)) \/ (\E r \in Req : BackgroundDelete(r))) =>
          \A r \in Req : pc[r] = "retrieve" => PointsOf(r) \subseteq points']_vars

\* C19 as stated: a request that has created its cleanup task has indexed
\* chunks before, without error.
C19_AsStated ==
    \A r \in Req :
        bg[r] # "none" =>
            /\ pc[r] \in {"retrieve", "summarize", "done"}
            /\ Len(all_chunks[r]) > 0
            /\ answer[r] # Response("Erro ao indexar conteudo.", <<>>)

\* the request's next step does not wait for its cleanup task
NeverWaits ==
    \A r \in Req :
        /\ pc[r] = "index" => ENABLED IndexEmbed(r, 1)
        /\ pc[r] = "upsert" => ENABLED IndexUpsert(r)
        /\ pc[r] = "retrieve" => ENABLED Retrieve(r)
        /\ pc[r] = "summarize" => ENABLED Summarize(r)

\* a step of the cleanup task of request r
BackgroundStep(r) ==
    \/ BackgroundStats(r)
    \/ BackgroundDelete(r)
    \/ \E what \in {"stats", "delete"} : BackgroundFail(r, what)

\* C20: a request goes on and answers whatever the state of its cleanup
\* task; a step of the task, failed or not, changes no request and no
\* response; a failed task deletes nothing; the task goes on to its delete
\* exactly when the stats it read count more than 10000 points, and it
\* deletes only points older than 24 hours, none of a request in progress.
C20_CleanupIsolated ==
    /\ []NeverWaits
    /\ [][\A r \in Req :
             /\ BackgroundStep(r) => (pc' = pc /\ answer' = answer /\ hits' = hits)
             /\ (\E what \in {"stats", "delete"} : BackgroundFail(r, what)) => points' = points
             /\ BackgroundStats(r) =>
                   /\ points' = points
                   /\ bg'[r] = "cleaning" <=> PointsCount(points) > HighWater
             /\ (BackgroundStep(r) /\ points' # points) =>
                   /\ bg[r] = "cleaning"
                   /\ \A p \in points \ points' :
                         /\ p.timestamp < now - BackgroundMaxAge * SecondsPerHour
                         /\ \A q \in Req : p.query_id # query_id[q]]_vars

\* a request was answered from its hits while its cleanup task had not run,
\* and the task of the other failed over a collection above the mark
C20_Witness ==
    \E a, b \in Req :
        /\ a # b
        /\ pc[a] = "done"
        /\ answer[a].kind = "response"
        /\ hits[a] # {}
        /\ bg[a] = "scheduled"
        /\ bg[b] = "failed"
        /\ PointsCount(points) > HighWater

(***************************************************************************)
(* helpers/text_selector.py: the relevance ranking and the token budget    *)
(***************************************************************************)
\* A text is a list of tokens joined by single spaces; a token is a word
\* (\w+) or the dash pair, which has no word character.
Chars(w) ==
    CASE w = "rio"     -> <<"r", "i", "o">>
      [] w = "Rio"     -> <<"R", "i", "o">>
      [] w = "brio"    -> <<"b", "r", "i", "o">>
      [] w = "janeiro" -> <<"j", "a", "n", "e", "i", "r", "o">>
      [] w = "de"      -> <<"d", "e">>
      [] w = "zz"      -> <<"z", "z">>
      [] w = "--"      -> <<"-", "-">>

\* str.lower() on one character
LowerChar(ch) == IF ch = "R" THEN "r" ELSE ch

\* str.lower() on a token
Lower(w) == IF w = "Rio" THEN "rio" ELSE w

\* does \b\w+\b match the token
IsWord(w) == w # "--"

\* the tokens of a chunk: pad filler words, then its words
TokensOf(c) ==
    [i \in 1..(c.pad + Len(c.words)) |-> IF i <= c.pad THEN "zz" ELSE c.words[i - c.pad]]

\* ' '.join(tokens), as characters
RECURSIVE JoinChars(_)
JoinChars(toks) ==
    IF Len(toks) = 0 THEN <<>>
    ELSE IF Len(toks) = 1 THEN Chars(toks[1])
    ELSE JoinChars(SubSeq(toks, 1, Len(toks) - 1)) \o <<" ">> \o Chars(toks[Len(toks)])

\* the characters of n filler words, a space after each
FillerChars(n) == [i \in 1..(3 * n) |-> IF i % 3 = 0 THEN " " ELSE "z"]

\* chunk["text"], as characters
TextOf(c) ==
    IF Len(c.words) = 0 THEN SubSeq(FillerChars(c.pad), 1, 3 * c.pad - 1)
    ELSE FillerChars(c.pad) \o JoinChars(c.words)

\* chunk_text.lower()
TextLower(c) ==
    TextOf([c EXCEPT !.words = [k \in 1..Len(c.words) |-> Lower(c.words[k])]])

\* len(chunk.get("text", ""))
TextChars(c) == Len(TextOf(c))

\* p in t, on strings
Contains(t, p) ==
    \E k \in 0..(Len(t) - Len(p)) : \A j \in 1..Len(p) : t[k + j] = p[j]

\* set(re.findall(r'\b\w+\b', s.lower())) of a list of tokens
TermsOf(toks) == {Lower(toks[i]) : i \in {k \in 1..Len(toks) : IsWord(toks[k])}}

\* the stop words of lines 61-68 that the vocabulary has
StopWords == {"de"}

\* query_terms of lines 57-69
QueryTerms(query) == TermsOf(query) \ StopWords

\* the orders in which a set of strings may be iterated: the order follows
\* the hashes of the strings, which change from one process to the next
TermOrders(T) ==
    {o \in SeqsOver(T, Cardinality(T)) : Len(o) = Cardinality(T) /\ Range(o) = T}

(***************************************************************************)
(* The scores are Python floats: IEEE 754 binary64, every operation        *)
(* rounded to nearest, ties to even.  A natural number is written in       *)
(* binary, lowest bit first.  A float is zero or m * 2^e with a            *)
(* significand m of 53 bits, kept as its high 26 bits and its low 27.  The *)
(* scores lie between 0 and 2, far from the subnormals and from infinity.  *)
(***************************************************************************)
\* the bits of the significand of a float, and those of its low part, the
\* larger half
SignificandBits == 53
LowBits == (SignificandBits + 1) \div 2

\* the arithmetic on long numbers goes by groups of bits, three groups to
\* the low part, so that the product of two groups stays a small integer
GroupBits == LowBits \div 3
Group == 2^GroupBits

Max(a, b) == IF a >= b THEN a ELSE b

\* the bit, or the digit, of x at k: 0 above the highest
BitAt(x, k) == IF k \in 1..Len(x) THEN x[k] ELSE 0

\* x without its high zero bits
Trim(x) ==
    IF \A k \in 1..Len(x) : x[k] = 0 THEN <<>>
    ELSE SubSeq(x, 1, CHOOSE k \in 1..Len(x) : x[k] # 0 /\ \A j \in (k + 1)..Len(x) : x[j] = 0)

\* the natural number n < 2^30 in binary
Bin(n) == Trim(SubSeq([k \in 1..30 |-> (n \div 2^(k - 1)) % 2], 1, 30))

\* cols[off + 1] + 2 * cols[off + 2] + ... over n columns
RECURSIVE Weigh(_, _, _)
Weigh(cols, off, n) ==
    IF n = 0 THEN 0 ELSE Weigh(cols, off, n - 1) + BitAt(cols, off + n) * 2^(n - 1)

\* the number a binary number is, for one of 30 bits at most
NatOf(x) == Weigh(x, 0, Len(x))

\* the columns taken by groups: the number in base 2^9, digits of any size
ToGroups(cols) ==
    SubSeq([j \in 1..((Len(cols) + GroupBits - 1) \div GroupBits) |->
              Weigh(cols, (j - 1) * GroupBits, GroupBits)],
           1, (Len(cols) + GroupBits - 1) \div GroupBits)

\* the digits brought under 2^9, c carried in
RECURSIVE Carry(_, _, _)
Carry(ds, j, c) ==
    IF j > Len(ds)
    THEN (IF c = 0 THEN <<>> ELSE <<c % Group>> \o Carry(ds, j, c \div Group))
    ELSE <<(ds[j] + c) % Group>> \o Carry(ds, j + 1, (ds[j] + c) \div Group)

\* the bits of a number in base 2^9
FromGroups(ds) ==
    Trim(SubSeq([k \in 1..(GroupBits * Len(ds)) |->
                   (ds[(k - 1) \div GroupBits + 1] \div 2^((k - 1) % GroupBits)) % 2],
                1, GroupBits * Len(ds)))

\* the binary number whose bit columns sum to cols
Propagate(cols) == FromGroups(Carry(ToGroups(cols), 1, 0))

BinAdd(x, y) ==
    Propagate([k \in 1..Max(Len(x), Len(y)) |-> BitAt(x, k) + BitAt(y, k)])

\* xs[1] * ys[j] + xs[2] * ys[j - 1] + ... + xs[a] * ys[j + 1 - a]
RECURSIVE Dot(_, _, _, _)
Dot(xs, ys, j, a) ==
    IF a = 0 THEN 0 ELSE Dot(xs, ys, j, a - 1) + xs[a] * BitAt(ys, j + 1 - a)

\* the product, column by column in base 2^9
BinMul(x, y) ==
    LET xs == ToGroups(x)
        ys == ToGroups(y)
    IN  FromGroups(Carry([j \in 1..(Len(xs) + Len(ys)) |-> Dot(xs, ys, j, Len(xs))], 1, 0))

\* x * 2^s
ShiftLeft(x, s) == IF x = <<>> THEN <<>> ELSE SubSeq([k \in 1..s |-> 0], 1, s) \o x

\* s backwards
Reverse(s) == [k \in 1..Len(s) |-> s[Len(s) + 1 - k]]

\* long division of the number ds in base 2^9 by a divisor d < 2^22, from
\* the digit j down, r the remainder so far: the digits of the quotient,
\* highest first, and after them 1 if a remainder is left, 0 if not
RECURSIVE DivFrom(_, _, _, _)
DivFrom(ds, d, j, r) ==
    IF j = 0 THEN <<IF r = 0 THEN 0 ELSE 1>>
    ELSE <<(Group * r + ds[j]) \div d>> \o DivFrom(ds, d, j - 1, (Group * r + ds[j]) % d)

\* floor(x / d) in binary, with one more bit below it that says whether a
\* remainder is left
BinDiv(x, d) ==
    LET xs == ToGroups(x)
        q  == DivFrom(xs, d, Len(xs), 0)
    IN  <<q[Len(q)]>> \o FromGroups(SubSeq(Reverse(q), 2, Len(q)))

FloatZero == [e |-> 0, hi |-> 0, lo |-> 0]

\* the float m * 2^e for a significand m of 53 bits
Float(m, e) ==
    [e |-> e, hi |-> NatOf(SubSeq(m, LowBits + 1, SignificandBits)),
     lo |-> NatOf(SubSeq(m, 1, LowBits))]

\* the significand of a float, in binary
Significand(x) ==
    LET lo == Bin(x.lo) IN Trim(SubSeq([k \in 1..LowBits |-> BitAt(lo, k)], 1, LowBits) \o Bin(x.hi))

\* the float nearest to x * 2^e, the even one of two that are as near
FloatRound(x, e) ==
    LET b == Trim(x)
        s == Len(b) - SignificandBits
    IN  IF b = <<>> THEN FloatZero
        ELSE IF s <= 0 THEN Float(ShiftLeft(b, 0 - s), e + s)
        ELSE LET q      == SubSeq(b, s + 1, Len(b))
                 half   == b[s] = 1
                 sticky == \E k \in 1..(s - 1) : b[k] = 1
                 r      == IF half /\ (sticky \/ q[1] = 1) THEN BinAdd(q, <<1>>) ELSE q
             IN  IF Len(r) > SignificandBits
                 THEN Float(SubSeq(r, 2, Len(r)), e + s + 1)
                 ELSE Float(r, e + s)

\* a / b on two ints, b > 0, and the float of a decimal literal a/b: the
\* quotient is taken to 3 bits more than a float holds, with one more bit
\* for what is left of the division, and rounded once
FloatDiv(a, b) ==
    FloatRound(BinDiv(ShiftLeft(Bin(a), SignificandBits + 3 + Len(Bin(b))), b),
               0 - (SignificandBits + 3 + Len(Bin(b))) - 1)

FloatMul(x, y) ==
    IF x = FloatZero \/ y = FloatZero THEN FloatZero
    ELSE FloatRound(BinMul(Significand(x), Significand(y)), x.e + y.e)

FloatAdd(x, y) ==
    IF x = FloatZero THEN y
    ELSE IF y = FloatZero THEN x
    ELSE FloatRound(BinAdd(ShiftLeft(Significand(x), x.e - Min(x.e, y.e)),
                           ShiftLeft(Significand(y), y.e - Min(x.e, y.e))), Min(x.e, y.e))

\* x < y
FloatLess(x, y) ==
    IF y.hi = 0 THEN FALSE
    ELSE IF x.hi = 0 THEN TRUE
    ELSE \/ x.e < y.e
         \/ x.e = y.e /\ x.hi < y.hi
         \/ x.e = y.e /\ x.hi = y.hi /\ x.lo < y.lo

\* min(x, y)
FloatMin(x, y) == IF FloatLess(y, x) THEN y ELSE x

\* the literals 0.5, 0.3, 0.2, 0.1 and 1.0
Float05 == FloatDiv(5, 10)
Float03 == FloatDiv(3, 10)
Float02 == FloatDiv(2, 10)
Float01 == FloatDiv(1, 10)
Float10 == FloatDiv(1, 1)

\* lines 14-36 on the counts: i terms in common out of u in the union, t
\* terms in the text, q in the query, early of them in the first 200 words
FinalScore(i, u, t, q, early, boosted) ==
    LET jaccard           == FloatDiv(i, u)
        density           == FloatDiv(i, t)
        consecutive_boost == IF boosted THEN Float02 ELSE FloatZero
        position_boost    == FloatMul(FloatDiv(early, q), Float01)
        final_score       == FloatAdd(FloatAdd(FloatAdd(FloatMul(jaccard, Float05),
                                                         FloatMul(density, Float03)),
                                               consecutive_boost),
                                      position_boost)
    IN  FloatMin(final_score, Float10)

\* the words a text and a query of the model may hold
Vocabulary == {"rio", "brio", "janeiro", "de", "zz"}

\* the scores of the texts and queries over the vocabulary, worked out once:
\* ScoreTable[i + 1][t][q][early + 1] holds the score without the phrase
\* boost and the score with it
ScoreTable ==
    SubSeq([i \in 1..(Cardinality(Vocabulary) + 1) |->
      SubSeq([t \in 1..Cardinality(Vocabulary) |->
        SubSeq([q \in 1..Cardinality(Vocabulary) |->
          SubSeq([early \in 1..(Cardinality(Vocabulary) + 1) |->
                    IF i - 1 <= t /\ i - 1 <= q /\ early <= i
                    THEN <<FinalScore(i - 1, t + q - (i - 1), t, q, early - 1, FALSE),
                           FinalScore(i - 1, t + q - (i - 1), t, q, early - 1, TRUE)>>
                    ELSE <<>>],
                 1, Cardinality(Vocabulary) + 1)],
               1, Cardinality(Vocabulary))],
             1, Cardinality(Vocabulary))],
           1, Cardinality(Vocabulary) + 1)

\* a score; min(final_score, 1.0)
Score(i, u, t, q, early, boosted) ==
    IF /\ t <= Cardinality(Vocabulary) /\ q <= Cardinality(Vocabulary)
       /\ i <= t /\ i <= q /\ early <= i /\ u = t + q - i
    THEN ScoreTable[i + 1][t][q][early + 1][IF boosted THEN 2 ELSE 1]
    ELSE FinalScore(i, u, t, q, early, boosted)

\* _calculate_chunk_score(chunk_text, query_terms), the set query_terms being
\* iterated in the order given
calculate_chunk_score(c, order) ==
    LET toks       == TokensOf(c)
        text_terms == TermsOf(toks)
        qt         == Range(order)
        phrase     == JoinChars(order)
        boosted    == /\ Len(phrase) > PhraseMinChars
                      /\ \E text_lower \in {TextLower(c)} : \E p \in {phrase} :
                            Contains(text_lower, p)
        early      == Cardinality(qt \cap TermsOf(FirstN(toks, EarlyWords)))
    IN  IF text_terms = {} THEN FloatZero
        ELSE Score(Cardinality(qt \cap text_terms), Cardinality(qt \cup text_terms),
                   Cardinality(text_terms), Cardinality(qt), early, boosted)

\* is score a above score b
Above(a, b) == FloatLess(b, a)

\* the key (-score, i) of chunk j comes before that of chunk k
KeyBefore(scores, j, k) ==
    \/ Above(scores[j], scores[k])
    \/ ~Above(scores[k], scores[j]) /\ j < k

\* lines 80-83: the indices of the chunks that have a text
WithText(cs) == {k \in 1..Len(cs) : TextChars(cs[k]) > 0}

\* lines 85-86: the score of every chunk that has a text
ScoresOf(cs, order) ==
    SubSeq([k \in 1..Len(cs) |-> IF TextChars(cs[k]) > 0
                                 THEN calculate_chunk_score(cs[k], order)
                                 ELSE FloatZero], 1, Len(cs))

\* the place of every scored chunk in the order of the keys (-score, i)
PlacesOf(scores, scored) ==
    SubSeq([k \in 1..Len(scores) |->
              IF k \in scored
              THEN 1 + Cardinality({j \in scored : KeyBefore(scores, j, k)})
              ELSE 0], 1, Len(scores))

\* line 91: scored_chunks.sort(key=lambda x: (-x[0], x[1])), as indices
SortedOf(scores, scored) ==
    CHOOSE sorted \in {SubSeq([r \in 1..Cardinality(scored) |->
                                 CHOOSE k \in 1..Len(place) : place[k] = r],
                              1, Cardinality(scored))
                       : place \in {PlacesOf(scores, scored)}} : TRUE

\* lines 79-94: the first max_chunks of the sorted chunks, as indices
RankedIndices(cs, order, max_chunks) ==
    CHOOSE ranked \in {FirstN(sorted, max_chunks)
                       : sorted \in {SortedOf(sc[1], sc[2])
                                     : sc \in {<<ScoresOf(cs, order), WithText(cs)>>}}} : TRUE

\* the chunks at the indices given
ChunksAt(cs, ind) == SubSeq([k \in 1..Len(ind) |-> cs[ind[k]]], 1, Len(ind))

\* select_relevant_chunks(chunks, query, max_chunks), query_terms being
\* iterated in the order given
select_relevant_chunks(cs, query, max_chunks, order) ==
    IF Len(cs) = 0 THEN <<>>
    ELSE IF QueryTerms(query) = {} THEN FirstN(cs, max_chunks)
    ELSE CHOOSE out \in {ChunksAt(cs, ranked)
                         : ranked \in {RankedIndices(cs, order, max_chunks)}} : TRUE

\* sum(len(chunk.get("text", "")) for chunk in chunks), chunks lo..hi
RECURSIVE CharsBetween(_, _, _)
CharsBetween(cs, lo, hi) ==
    IF lo > hi THEN 0
    ELSE IF lo = hi THEN TextChars(cs[lo])
    ELSE CharsBetween(cs, lo, (lo + hi) \div 2) + CharsBetween(cs, (lo + hi) \div 2 + 1, hi)

TotalChars(cs) == CharsBetween(cs, 1, Len(cs))

\* an estimate that rounds up
estimate_context_tokens_up(cs) == (TotalChars(cs) + CharsPerToken - 1) \div CharsPerToken

\* estimate_context_tokens(chunks)
estimate_context_tokens(cs) == TotalChars(cs) \div CharsPerToken

\* ---- SpecSelect: the selector applied to bounded lists of chunks ----
Chunk(u, pad, words) == [url |-> u, pad |-> pad, words |-> words]

ChunkAlphabet ==
    {Chunk("u1", 0, <<>>),
     Chunk("u1", 0, <<"--">>),
     Chunk("u1", 0, <<"rio", "janeiro">>),
     Chunk("u2", 0, <<"janeiro", "rio">>),
     Chunk("u3", 0, <<"Rio", "de", "janeiro">>),
     Chunk("u4", 0, <<"brio", "janeiro">>)}

\* a chunk whose query words lie on the two sides of the 200th word
PaddedChunk == Chunk("u2", EarlyWords - 1, <<"rio", "janeiro">>)

\* lists at the two caps: n copies of one chunk and a better one at the end
LongList(n) ==
    [i \in 1..(n + 1) |-> IF i <= n THEN Chunk("u1", 0, <<"janeiro">>)
                          ELSE Chunk("u2", 0, <<"rio", "janeiro">>)]

\* two chunks whose scores for the terms rio, brio, janeiro, taken in this
\* order, are 0.8999999999999999 and 0.9: 0.9 both without the rounding
RoundedList ==
    <<Chunk("u1", 0, <<"brio", "brio", "janeiro">>),
      Chunk("u2", 0, <<"janeiro", "brio", "rio">>)>>

ChunkLists ==
    SeqsOver(ChunkAlphabet, MaxChunks)
      \cup {<<PaddedChunk, Chunk("u1", 0, <<"rio">>)>>}
      \cup {LongList(n) : n \in {DefaultMaxChunks, BudgetTopN - 1, BudgetTopN}}

Queries == {<<"de">>, <<"janeiro">>, <<"Rio", "de", "janeiro">>, <<"janeiro", "brio">>}

\* the calls tried: every list with every query, and the list of the two
\* rounded scores with its query of three terms
SelectCalls ==
    (ChunkLists \X Queries) \cup {<<RoundedList, <<"rio", "brio", "janeiro">>>>}

\* max_tokens
Budgets == {0 - 1, 0, 2, 5, 100}

\* the process runs of select_relevant_chunks that are compared
Runs == {1, 2}

SelectInit ==
    /\ ChunkIdle /\ CrawlIdle /\ IndexIdle /\ AnswerIdle /\ StoreIdle
    /\ \E call \in SelectCalls : sel_chunks = call[1] /\ sel_query = call[2]
    /\ sel_budget \in Budgets
    /\ sel_runs = [k \in Runs |-> [done |-> FALSE, out |-> <<>>]]
    /\ sel_ranking = <<>>
    /\ sel_selected = <<>>
    /\ sel_result = <<>>
    /\ sel_pc = "start"

\* one process runs select_relevant_chunks(chunks, query) and returns
RankRun(k) ==
    /\ ~sel_runs[k].done
    /\ \E order \in TermOrders(QueryTerms(sel_query)) :
          sel_runs' = [sel_runs EXCEPT ![k] =
                          [done |-> TRUE,
                           out |-> select_relevant_chunks(sel_chunks, sel_query,
                                                          DefaultMaxChunks, order)]]
    /\ UNCHANGED <<sel_chunks, sel_query, sel_budget, sel_ranking, sel_selected,
                   sel_result, sel_pc>>

\* line 127: the first, wider selection
BudgetStart ==
    /\ sel_pc = "start"
    /\ \E order \in TermOrders(QueryTerms(sel_query)) :
          /\ sel_selected' = select_relevant_chunks(sel_chunks, sel_query, BudgetTopN, order)
          /\ sel_ranking' = sel_selected'
    /\ sel_pc' = "loop"
    /\ UNCHANGED <<sel_chunks, sel_query, sel_budget, sel_runs, sel_result>>

\* lines 130-135: the selection fits and is returned
BudgetReturn ==
    /\ sel_pc = "loop"
    /\ Len(sel_selected) > 0
    /\ estimate_context_tokens(sel_selected) <= sel_budget
    /\ sel_result' = sel_selected
    /\ sel_pc' = "done"
    /\ UNCHANGED <<sel_chunks, sel_query, sel_budget, sel_runs, sel_ranking, sel_selected>>

\* lines 137-138: the last chunk is dropped
BudgetDrop ==
    /\ sel_pc = "loop"
    /\ Len(sel_selected) > 0
    /\ ~(estimate_context_tokens(sel_selected) <= sel_budget)
    /\ sel_selected' = SubSeq(sel_selected, 1, Len(sel_selected) - 1)
    /\ UNCHANGED <<sel_chunks, sel_query, sel_budget, sel_runs, sel_ranking,
                   sel_result, sel_pc>>

\* lines 141-142: nothing is left
BudgetGiveUp ==
    /\ sel_pc = "loop"
    /\ Len(sel_selected) = 0
    /\ sel_result' = <<>>
    /\ sel_pc' = "done"
    /\ UNCHANGED <<sel_chunks, sel_query, sel_budget, sel_runs, sel_ranking, sel_selected>>

\* a step of select_chunks_within_token_limit
BudgetStep ==
    /\ BudgetStart \/ BudgetReturn \/ BudgetDrop \/ BudgetGiveUp
    /\ UNCHANGED <<chunk_vars, crawl_vars, index_vars, answer_vars, store_vars>>

SelectNext ==
    \/ \E k \in Runs : RankRun(k) /\ UNCHANGED <<chunk_vars, crawl_vars, index_vars, answer_vars, store_vars>>
    \/ BudgetStart /\ UNCHANGED <<chunk_vars, crawl_vars, index_vars, answer_vars, store_vars>>
    \/ BudgetReturn /\ UNCHANGED <<chunk_vars, crawl_vars, index_vars, answer_vars, store_vars>>
    \/ BudgetDrop /\ UNCHANGED <<chunk_vars, crawl_vars, index_vars, answer_vars, store_vars>>
    \/ BudgetGiveUp /\ UNCHANGED <<chunk_vars, crawl_vars, index_vars, answer_vars, store_vars>>

\* the coroutine of select_chunks_within_token_limit is run whenever it can
SpecSelect == SelectInit /\ [][SelectNext]_vars /\ WF_vars(BudgetStep)

(***************************************************************************)
(* Claims about the store operations called twice (SpecStore).             *)
(***************************************************************************)
\* the points index_chunks would build if the call that built P were made
\* again at once: the same payloads under the ids of the next call
BuiltAgain(P) == {[p EXCEPT !.id = Uuid(minted + 1, p.id[3])] : p \in P}

\* C21 as stated: index_chunks called again with the same chunks and query_id
\* leaves the set of points it left the first time, and so do
\* cleanup_query_chunks(query_id) and cleanup_old_chunks(H) called again.
C21_AsStated ==
    [][/\ \A r \in Req : StoreUpsert(r) => points' \cup BuiltAgain(pending[r]) = points'
       /\ \A q \in StoreIds : CleanupQuery(q) => {p \in points' : p.query_id # q} = points'
       /\ \A c \in deleting[Admin] : AdminDelete(c) => DeleteOld(points', c) = points']_vars

\* the part of C21 about the deletes: either cleanup called again at once
\* changes nothing
C21_DeleteIdempotent ==
    [][/\ \A q \in StoreIds : CleanupQuery(q) => {p \in points' : p.query_id # q} = points'
       /\ \A c \in deleting[Admin] : AdminDelete(c) => DeleteOld(points', c) = points']_vars

(***************************************************************************)
(* Claims about the selector (SpecSelect).                                 *)
(***************************************************************************)
BothRan == \A k \in Runs : sel_runs[k].done

\* C22 as stated: two runs of select_relevant_chunks on the same chunk list
\* and the same query return the same ordered list.
C22_AsStated == BothRan => sel_runs[1].out = sel_runs[2].out

\* the part of C22 that holds: the runs agree when the query leaves at most
\* one term, the set having one order only
C22_OneTermDeterministic ==
    (BothRan /\ Cardinality(QueryTerms(sel_query)) <= 1) => sel_runs[1].out = sel_runs[2].out

\* total text length divided by 4, rounded down, of the first k of the ranking
PrefixTokens(k) == TotalChars(FirstN(sel_ranking, k)) \div 4

Fits(k) == PrefixTokens(k) <= sel_budget

\* the result is the longest prefix of the ranking of the 50 best chunks
\* that fits, and it is empty exactly when no prefix with a chunk in it fits
LongestFit ==
    LET k == Len(sel_result) IN
    /\ Len(sel_ranking) <= BudgetTopN
    /\ \E order \in TermOrders(QueryTerms(sel_query)) :
          sel_ranking = select_relevant_chunks(sel_chunks, sel_query, BudgetTopN, order)
    /\ k <= Len(sel_ranking)
    /\ sel_result = FirstN(sel_ranking, k)
    /\ \A j \in (k + 1)..Len(sel_ranking) : ~Fits(j)
    /\ k = 0 <=> ~\E j \in 1..Len(sel_ranking) : Fits(j)

\* C23 as stated: the result is the longest prefix of the top-50 ranking
\* that fits, empty exactly when no non-empty prefix fits, and the estimate
\* of the result is never over max_tokens.
C23_AsStated == sel_pc = "done" => (LongestFit /\ Fits(Len(sel_result)))

BudgetAnswer ==
    sel_pc = "done" =>
        /\ LongestFit
        /\ ~Fits(Len(sel_result)) <=> (Len(sel_result) = 0 /\ sel_budget < 0)

\* C23: select_chunks_within_token_limit terminates; what it returns is a
\* prefix of the top-50 ranking it started from, the longest one whose
\* length in characters divided by 4, rounded down, is within max_tokens; it
\* is empty exactly when no non-empty prefix fits; a result with a chunk in
\* it is never over the budget, and the empty result, whose estimate is 0,
\* is over the budget exactly when max_tokens is negative.
C23_TokenBudget == []BudgetAnswer /\ <>(sel_pc = "done")

\* more than 50 chunks were given, the ranking kept 50 and the budget cut
\* it to a shorter selection that is not empty
C23_Witness ==
    /\ sel_pc = "done"
    /\ Len(sel_chunks) > BudgetTopN
    /\ Len(sel_ranking) = BudgetTopN
    /\ Len(sel_result) > 0
    /\ Len(sel_result) < Len(sel_ranking)

(***************************************************************************)
(* Claims about the remote calls (SpecAwait).                              *)
(***************************************************************************)
\* C24 as stated: whatever the embedding provider and the LLM do, the calls
\* end, by an answer or by a timeout error, and every request returns a
\* response.
C24_AsStated == \A r \in Req : <>(pc[r] = "done")

\* what holds of C24: a request ends with a response or stays in the await
\* of a remote call
C24_AnsweredOrAwaiting == \A r \in Req : <>(pc[r] \in {"done", "awaiting"})

(***************************************************************************)
(* Claims about the liveness of the crawl slots (SpecPoolFair).            *)
(***************************************************************************)
\* the crawl tasks of all the requests
CrawlTasks == {<<r, i>> \in Req \X TaskIds : i <= Len(tasks[r])}

SlotsBack == InFlight = {} => sem = CrawlSlots

\* crawl i of request r waits for a slot
Waits(r, i) == i <= Len(tasks[r]) /\ tasks[r][i] = "queued"

\* crawl i of request r has completed
Completed(r, i) == i <= Len(tasks[r]) /\ tasks[r][i] = "done"

\* crawl i of request r was cancelled before it had a result
Dropped(r, i) == i <= Len(tasks[r]) /\ tasks[r][i] = "cancelled"

=============================================================================
